---------------------------- MODULE Spec2Model ----------------------------
(***************************************************************************)
(* A state-machine model of the NxAgent security-reasoning core.           *)
(*                                                                         *)
(* The module is organised by component; every component has its own       *)
(* variables, its own initial predicate and its own next-state relation,   *)
(* and a specification of one component leaves the variables of the        *)
(* others parked in a fixed initial state.                                 *)
(*                                                                         *)
(*   Verification & Response Gate   ResponseProtocol  (nx_agent_response)  *)
(*   Anomaly Engine                 AnomalyDetector   (nx_agent_anomaly)   *)
(*   Oracle request queue           LLMManager        (nx_agent_llm)       *)
(*   Cognitive Core                 ReasoningSystem   (nx_agent_reasoning) *)
(*   Strategy stores                StrategyManager   (nx_agent_strategy)  *)
(*   Goals and actions              ReasoningSystem   (nx_agent_reasoning) *)
(*   Task order                     ReasoningSystem   (nx_agent_reasoning) *)
(*   Frame pipeline                 MetadataAnalyzer  (nx_agent_metadata)  *)
(*   Plan generation with an oracle StrategyManager   (nx_agent_strategy)  *)
(*   Action execution               ReasoningSystem   (nx_agent_reasoning) *)
(*   Subject tracking               StrategyManager   (nx_agent_strategy)  *)
(*   Reflection schedule            ReasoningSystem   (nx_agent_reasoning) *)
(*                                                                         *)
(* Times are integers in milliseconds of std::chrono::system_clock;        *)
(* anomaly scores are integers in thousandths (score 0.85 is 850).         *)
(***************************************************************************)
EXTENDS Integers, Sequences, FiniteSets, TLC

(***************************************************************************)
(*                     VERIFICATION & RESPONSE GATE                        *)
(***************************************************************************)
VARIABLES
    clockMs,             \* std::chrono::system_clock::now(), in ms
    m_activeAnomalies,   \* anomaly type -> AnomalyTracker, or NoTracker
    m_responseActions,   \* bucket key -> sequence of ResponseAction, or NoBucket
    m_nxEventCallback,   \* TRUE once setNxEventCallback stored a callable
    enableSipIntegration,\* GlobalConfig::enableSipIntegration
    gateTicks,           \* number of clock advances so far (bounded)
    gateApiCalls,        \* number of add/removeResponseAction calls so far (bounded)
    gateCalls,           \* number of anomalous results processed so far (bounded)
    lastObs,             \* history: the last anomalous observation processed
    lastFiredAt,         \* history: <<type, action name>> -> time the action last fired
    nxEventCalls,        \* history: callback invocations for the live tracker of a type
    triggerRuns,         \* history: triggerResponses passes for the live tracker of a type
    nxAtTrigger,         \* history: NX_EVENT actions in the bucket at the tracker's pass
    detectionsInRow      \* history: anomaly type -> its detections since the last normal frame

gateVars == <<clockMs, m_activeAnomalies, m_responseActions, m_nxEventCallback,
              enableSipIntegration, gateTicks, gateApiCalls, gateCalls, lastObs,
              lastFiredAt, nxEventCalls, triggerRuns, nxAtTrigger,
              detectionsInRow>>

(***************************************************************************)
(*                            ANOMALY ENGINE                               *)
(***************************************************************************)
VARIABLES
    enableLearning,      \* DeviceConfig::enableLearning
    m_baselineData,      \* hour -> number of feature vectors in the buffer
    m_timeModels,        \* hour -> samples the model was trained on (0: untrained)
    modelFile,           \* hour -> samples of the model in the file (0: no file)
    m_baselineMutex,     \* the thread that owns the mutex, or NoOwner
    detPc,               \* thread -> where it is inside a detector method
    reachedThreshold,    \* history: thread -> its addToBaseline call filled the
                         \* buffer to the training threshold
    resetsInRow          \* history: resetBaseline calls completed since the last
                         \* change of a buffer or a model by another method (0, 1,
                         \* or 2 for two and more)

detVars == <<enableLearning, m_baselineData, m_timeModels, modelFile,
             m_baselineMutex, detPc, reachedThreshold, resetsInRow>>

(***************************************************************************)
(*                        ORACLE REQUEST QUEUE                             *)
(***************************************************************************)
VARIABLES
    llmRunning,          \* LLMManager::m_running
    m_requestQueue,      \* LLMManager::m_requestQueue: callers whose request waits
    llmWorkerPc,         \* where LLMManager::workerFunction is
    llmCurrent,          \* the caller whose request the worker is sending
    promiseReady,        \* caller -> the promise of its request holds a value
    callerPc,            \* caller -> "idle", or "waiting" inside future.get()
    stopPc,              \* where the thread that calls stop() is
    llmSubmits           \* number of requests submitted so far (bounded)

oracleVars == <<llmRunning, m_requestQueue, llmWorkerPc, llmCurrent, promiseReady,
                callerPc, stopPc, llmSubmits>>

(***************************************************************************)
(*                 COGNITIVE CORE AND STRATEGY MANAGER                     *)
(***************************************************************************)
VARIABLES
    m_running,           \* ReasoningSystem::m_running
    m_taskQueue,         \* ReasoningSystem::m_taskQueue: the types of the waiting tasks
    mutexOwner,          \* mutex -> the thread that holds it, or NoHolder
    workerPc,            \* where ReasoningSystem::workerFunction is
    workerTask,          \* the type of the task the worker dequeued last
    workerOps,           \* what is left of the task the worker executes
    callerOps,           \* calling thread -> what is left of the call it is in
    dtorPc,              \* where the thread that runs ~ReasoningSystem is
    coreCalls,           \* number of calls made by the calling threads (bounded)
    startedAfterShutdown \* tasks whose execution began after notify_all

coreVars == <<m_running, m_taskQueue, mutexOwner, workerPc, workerTask, workerOps,
              callerOps, dtorPc, coreCalls, startedAfterShutdown>>

(***************************************************************************)
(*                           STRATEGY STORES                               *)
(***************************************************************************)
VARIABLES
    strategyClockMs,     \* std::chrono::system_clock::now() as the manager reads it
    m_subjects,          \* StrategyManager::m_subjects: trackId -> TrackedSubject
    m_incidents,         \* StrategyManager::m_incidents: incidentId -> SecurityIncident
    m_plans,             \* StrategyManager::m_plans: planId -> StrategicPlan
    plansMade,           \* number of plans generated so far (the next plan id)
    strategyTicks,       \* number of clock advances (bounded)
    strategyCalls,       \* number of calls made to the manager (bounded)
    lastAnalysis         \* history: the last call, if processAnalysisResult

storeVars == <<strategyClockMs, m_subjects, m_incidents, m_plans, plansMade,
               strategyTicks, strategyCalls, lastAnalysis>>

(***************************************************************************)
(*                          GOALS AND ACTIONS                              *)
(***************************************************************************)
VARIABLES
    m_goals,             \* ReasoningSystem::m_goals, in creation order
    m_actions,           \* ReasoningSystem::m_actions, in creation order
    goalCalls,           \* number of operations on the two maps (bounded)
    lastEvaluation       \* history: what the last operation was, if updateGoals

goalVars == <<m_goals, m_actions, goalCalls, lastEvaluation>>

(***************************************************************************)
(*                             TASK ORDER                                  *)
(***************************************************************************)
VARIABLES
    queuedTasks,         \* ReasoningSystem::m_taskQueue with every task's identity
    tasksPushed,         \* number of tasks pushed so far: the id of the last one
    taskRunning,         \* the worker is inside executeTask
    executedTasks        \* the tasks handed to executeTask, in that order

taskVars == <<queuedTasks, tasksPushed, taskRunning, executedTasks>>

(***************************************************************************)
(*                           FRAME PIPELINE                                *)
(***************************************************************************)
VARIABLES
    pipeNowMs,              \* std::chrono::system_clock::now(), in ms since midnight
    pipeTimestampMs,        \* timestampUs of the next frame, in ms since midnight
    m_unknownVisitorTracks, \* clock time the visitor's track was first seen, or NoTrack
    pipeModels,             \* hour -> TRUE when m_timeModels[hour]->isTrained()
    framesDone,             \* number of frames processed so far (bounded)
    visitorSinceMs,         \* history: timestamp of the first frame of the visitor's stay
    lastFrame               \* history: what processFrame did with the last frame

pipeVars == <<pipeNowMs, pipeTimestampMs, m_unknownVisitorTracks, pipeModels, framesDone,
              visitorSinceMs, lastFrame>>

(***************************************************************************)
(*                     PLAN GENERATION WITH AN ORACLE                      *)
(***************************************************************************)
VARIABLES
    m_llmManager,        \* TRUE when StrategyManager::initialize stored an oracle
    plannerOwner,        \* state-store mutex -> the thread that owns it, or NoHolder
    plannerOps,          \* thread -> what is left of the call it is in
    requestPending,      \* thread -> its request is with the oracle, unanswered
    responseReady,       \* thread -> the future of its request holds a response
    plannerCalls         \* number of calls made so far (bounded)

planVars == <<m_llmManager, plannerOwner, plannerOps, requestPending, responseReady,
              plannerCalls>>

(***************************************************************************)
(*                          ACTION EXECUTION                               *)
(***************************************************************************)
VARIABLES
    execActions,         \* action id -> the Action in m_actions, or NoAction
    execCreated,         \* number of actions created so far (bounded)
    execTasks,           \* the action ids of the EXECUTE_ACTION tasks in m_taskQueue
    execRunning          \* the action the worker is executing, or NoRunning

execVars == <<execActions, execCreated, execTasks, execRunning>>

(***************************************************************************)
(*                          SUBJECT TRACKING                               *)
(***************************************************************************)
VARIABLES
    positionHistory,     \* track id -> TrackedSubject::positionHistory of m_subjects, or NoSubject
    trackPc,             \* camera pipeline -> its position in updateTrackedSubject
    trackObj,            \* camera pipeline -> the DetectedObject it is processing
    detectionsMade       \* number of detections handed in so far (bounded)

trackVars == <<positionHistory, trackPc, trackObj, detectionsMade>>

(***************************************************************************)
(*                         REFLECTION SCHEDULE                             *)
(***************************************************************************)
VARIABLES
    reflectClockUs,      \* TimeUtils::getCurrentTimestampUs()
    reflectQueue,        \* ReasoningSystem::m_taskQueue: type and parameters["scheduledTimeUs"]
    reflectionsRun,      \* history: every call of reflect(), its time and its task's schedule
    reflectTicks,        \* number of clock advances (bounded)
    reflectPushes        \* number of tasks pushed from outside the worker (bounded)

reflectVars == <<reflectClockUs, reflectQueue, reflectionsRun, reflectTicks, reflectPushes>>

\* what an action of one component leaves alone
notGate == <<detVars, oracleVars, coreVars, storeVars, goalVars, taskVars, pipeVars, planVars, execVars, trackVars, reflectVars>>
notDetector == <<gateVars, oracleVars, coreVars, storeVars, goalVars, taskVars, pipeVars, planVars, execVars, trackVars, reflectVars>>
notOracle == <<gateVars, detVars, coreVars, storeVars, goalVars, taskVars, pipeVars, planVars, execVars, trackVars, reflectVars>>
notCore == <<gateVars, detVars, oracleVars, storeVars, goalVars, taskVars, pipeVars, planVars, execVars, trackVars, reflectVars>>
notStore == <<gateVars, detVars, oracleVars, coreVars, goalVars, taskVars, pipeVars, planVars, execVars, trackVars, reflectVars>>
notGoals == <<gateVars, detVars, oracleVars, coreVars, storeVars, taskVars, pipeVars, planVars, execVars, trackVars, reflectVars>>
notTasks == <<gateVars, detVars, oracleVars, coreVars, storeVars, goalVars, pipeVars, planVars, execVars, trackVars, reflectVars>>
notPipeline == <<gateVars, detVars, oracleVars, coreVars, storeVars, goalVars, taskVars, planVars, execVars, trackVars, reflectVars>>
notPlanner == <<gateVars, detVars, oracleVars, coreVars, storeVars, goalVars, taskVars, pipeVars, execVars, trackVars, reflectVars>>
notExec == <<gateVars, detVars, oracleVars, coreVars, storeVars, goalVars, taskVars, pipeVars, planVars, trackVars, reflectVars>>
notTracking == <<gateVars, detVars, oracleVars, coreVars, storeVars, goalVars, taskVars, pipeVars, planVars, execVars, reflectVars>>
notReflection == <<gateVars, detVars, oracleVars, coreVars, storeVars, goalVars, taskVars, pipeVars, planVars, execVars, trackVars>>

(***************************************************************************)
(*              VERIFICATION & RESPONSE GATE: definitions                  *)
(***************************************************************************)
\* ---- bounds of the gate model
MaxGateTicks == 2
MaxGateApiCalls == 1
MaxGateCalls == 3
\* the clock reading at construction: any value later than every cooldown,
\* so that a default-constructed lastTriggeredTime (the epoch) is out of cooldown
GateStartMs == 1000000

\* ---- program constants of the gate
VerifyHighScore == 850
VerifyMediumScore == 700
VerifyMediumDetections == 2
VerifyPersistDetections == 3
VerifyPersistSecs == 30
TrackerExpirySecs == 120
DefaultCooldownMs == 60000
SipCooldownMs == 300000
LogPriority == 0
NxEventPriority == 10
SipPriority == 20

\* ---- inputs
AnomalyTypes == {"UnknownVisitor"}
BucketKeys == {"UnknownVisitor", "AbnormalActivity", "GeneralAnomaly", "Loitering"}
\* the types whose bucket a caller edits through add/removeResponseAction
ApiTypes == {"UnknownVisitor"}
Scores == {500, 750, 900}
TimeStepsMs == {30500, 120500}

NoTracker == [none |-> TRUE]
\* a key that std::map m_responseActions does not hold
NoBucket == [present |-> FALSE, actions |-> <<>>]
NoObs == [none |-> TRUE]
\* the epoch, the value of a default-constructed time_point
EpochMs == 0

\* ResponseAction as default-constructed by the struct, then filled in
ResponseAction(name, type, target, priority, cooldownMs) ==
    [name |-> name, type |-> type, target |-> target, priority |-> priority,
     cooldownMs |-> cooldownMs, lastTriggeredTime |-> EpochMs]

logAction == ResponseAction("LogAnomaly", "LOG_ONLY", "", LogPriority, DefaultCooldownMs)
nxEventAction == ResponseAction("NxEvent", "NX_EVENT", "", NxEventPriority, DefaultCooldownMs)
sipAction == ResponseAction("SipNotification", "SIP_CALL", "alarmPhoneNumber",
                            SipPriority, SipCooldownMs)
\* an action a caller may register through the public addResponseAction:
\* a second event-raising action under another name
escalationAction == ResponseAction("NxEscalation", "NX_EVENT", "", 15, DefaultCooldownMs)

\* and the logging action re-registered under its name with a raised priority
urgentLogAction == ResponseAction("LogAnomaly", "LOG_ONLY", "", 30, DefaultCooldownMs)

ActionTemplates == {logAction, nxEventAction, sipAction, escalationAction}
ActionNames == {a.name : a \in ActionTemplates}
\* what a caller registers or removes through the public interface
ApiActions == {sipAction, escalationAction, urgentLogAction}
ApiNames == {"NxEvent", "SipNotification"}
CooldownMsOf(name) == (CHOOSE a \in ActionTemplates : a.name = name).cooldownMs

\* ---- helpers on sequences
RECURSIVE InsertByPriority(_, _)
InsertByPriority(s, a) ==
    IF s = <<>> THEN <<a>>
    ELSE IF a.priority > Head(s).priority THEN <<a>> \o s
    ELSE <<Head(s)>> \o InsertByPriority(Tail(s), a)

RECURSIVE SortByPriority(_)
SortByPriority(s) ==
    IF s = <<>> THEN <<>>
    ELSE InsertByPriority(SortByPriority(Tail(s)), Head(s))

RECURSIVE RemoveByName(_, _)
RemoveByName(s, name) ==
    IF s = <<>> THEN <<>>
    ELSE IF Head(s).name = name THEN RemoveByName(Tail(s), name)
    ELSE <<Head(s)>> \o RemoveByName(Tail(s), name)

HasName(s, name) == \E i \in DOMAIN s : s[i].name = name

\* ---- addResponseAction: update in place when the name exists, else append
\* and sort by priority, highest first
AddAction(buckets, anomalyType, action) ==
    LET cur == buckets[anomalyType].actions
        updated ==
            IF HasName(cur, action.name)
            THEN LET first == CHOOSE i \in DOMAIN cur :
                                 /\ cur[i].name = action.name
                                 /\ \A j \in DOMAIN cur :
                                        cur[j].name = action.name => i <= j
                 IN [cur EXCEPT ![first] = action]
            ELSE SortByPriority(Append(cur, action))
    IN [buckets EXCEPT ![anomalyType] = [present |-> TRUE, actions |-> updated]]

\* ---- removeResponseAction: erase every action of that name; the key stays
RemoveAction(buckets, anomalyType, actionName) ==
    IF ~buckets[anomalyType].present THEN buckets
    ELSE [buckets EXCEPT ![anomalyType].actions = RemoveByName(@, actionName)]

\* ---- the constructor's registrations
ConstructedActions(sip) ==
    LET empty == [k \in BucketKeys |-> NoBucket]
        b1 == AddAction(AddAction(empty, "UnknownVisitor", logAction),
                        "UnknownVisitor", nxEventAction)
        b2 == AddAction(AddAction(b1, "AbnormalActivity", logAction),
                        "AbnormalActivity", nxEventAction)
        b3 == AddAction(AddAction(b2, "GeneralAnomaly", logAction),
                        "GeneralAnomaly", nxEventAction)
    IN IF sip THEN AddAction(b3, "UnknownVisitor", sipAction) ELSE b3

\* ---- cleanupAnomalies: drop trackers idle for more than 120 whole seconds
TrackerExpired(tracker, now) ==
    (now - tracker.lastDetectedTime) \div 1000 > TrackerExpirySecs

CleanupAnomalies(trackers, now) ==
    [t \in AnomalyTypes |->
        IF trackers[t] # NoTracker /\ TrackerExpired(trackers[t], now)
        THEN NoTracker ELSE trackers[t]]

\* ---- processAnomaly, get-or-create part
NewTracker(score, now) ==
    [initialScore |-> score, consecutiveDetections |-> 1,
     firstDetectedTime |-> now, lastDetectedTime |-> now,
     verified |-> FALSE, responded |-> FALSE]

UpdateTracker(tracker, score, now) ==
    [tracker EXCEPT !.consecutiveDetections = @ + 1,
                    !.lastDetectedTime = now,
                    !.initialScore = IF score > @ THEN score ELSE @]

\* ---- verifyAnomaly: the value it returns, which it also stores in
\* tracker.verified
PersistedSecs(tracker) ==
    (tracker.lastDetectedTime - tracker.firstDetectedTime) \div 1000

VerifyFromScratch(score, tracker) ==
    IF score > VerifyHighScore THEN TRUE
    ELSE IF score > VerifyMediumScore
            /\ tracker.consecutiveDetections >= VerifyMediumDetections THEN TRUE
    ELSE IF tracker.consecutiveDetections >= VerifyPersistDetections THEN TRUE
    ELSE PersistedSecs(tracker) > VerifyPersistSecs

VerifyAnomaly(score, tracker) ==
    IF tracker.verified THEN TRUE
    ELSE IF score > VerifyHighScore THEN TRUE
    ELSE IF score > VerifyMediumScore
            /\ tracker.consecutiveDetections >= VerifyMediumDetections THEN TRUE
    ELSE IF tracker.consecutiveDetections >= VerifyPersistDetections THEN TRUE
    ELSE PersistedSecs(tracker) > VerifyPersistSecs

\* ---- processAnomaly: the condition under which it calls triggerResponses
ShouldTriggerAlways(tracker) == tracker.verified

ShouldTrigger(tracker) == tracker.verified /\ ~tracker.responded

\* ---- executeAction: whether the action reports success
ExecuteAction(action, callbackSet, sip) ==
    CASE action.type = "LOG_ONLY" -> TRUE
      [] action.type = "NX_EVENT" -> callbackSet
      [] action.type = "HTTP_REQUEST" -> action.target # ""
      [] action.type = "SIP_CALL" -> sip /\ action.target # ""
      [] action.type = "EXECUTE_COMMAND" -> action.target # ""
      [] OTHER -> FALSE

\* ---- triggerResponses
InCooldown(action, now) == now - action.lastTriggeredTime < action.cooldownMs

Fires(action, now, callbackSet, sip) ==
    ~InCooldown(action, now) /\ ExecuteAction(action, callbackSet, sip)

\* the bucket triggerResponses iterates for a tracker of this type
BucketFor(buckets, anomalyType) ==
    IF buckets[anomalyType].present THEN anomalyType
    ELSE IF buckets["GeneralAnomaly"].present THEN "GeneralAnomaly"
    ELSE "none"

TriggerResponses(actions, now, callbackSet, sip) ==
    [i \in DOMAIN actions |->
        IF Fires(actions[i], now, callbackSet, sip)
        THEN [actions[i] EXCEPT !.lastTriggeredTime = now]
        ELSE actions[i]]

CallbackInvocations(actions, now, callbackSet, sip) ==
    Cardinality({i \in DOMAIN actions :
        actions[i].type = "NX_EVENT" /\ Fires(actions[i], now, callbackSet, sip)})

NxEventActions(actions) ==
    Cardinality({i \in DOMAIN actions : actions[i].type = "NX_EVENT"})

\* ---- state of the gate after construction
InitGate ==
    /\ clockMs = GateStartMs
    /\ enableSipIntegration \in BOOLEAN
    /\ m_activeAnomalies = [t \in AnomalyTypes |-> NoTracker]
    /\ m_responseActions = ConstructedActions(enableSipIntegration)
    /\ m_nxEventCallback = FALSE
    /\ gateTicks = 0
    /\ gateApiCalls = 0
    /\ gateCalls = 0
    /\ lastObs = NoObs
    /\ lastFiredAt = [k \in AnomalyTypes \X ActionNames |-> EpochMs]
    /\ nxEventCalls = [t \in AnomalyTypes |-> 0]
    /\ triggerRuns = [t \in AnomalyTypes |-> 0]
    /\ nxAtTrigger = [t \in AnomalyTypes |-> 0]
    /\ detectionsInRow = [t \in AnomalyTypes |-> 0]

ParkedGate ==
    /\ clockMs = GateStartMs
    /\ enableSipIntegration = FALSE
    /\ m_activeAnomalies = [t \in AnomalyTypes |-> NoTracker]
    /\ m_responseActions = ConstructedActions(FALSE)
    /\ m_nxEventCallback = FALSE
    /\ gateTicks = 0
    /\ gateApiCalls = 0
    /\ gateCalls = 0
    /\ lastObs = NoObs
    /\ lastFiredAt = [k \in AnomalyTypes \X ActionNames |-> EpochMs]
    /\ nxEventCalls = [t \in AnomalyTypes |-> 0]
    /\ triggerRuns = [t \in AnomalyTypes |-> 0]
    /\ nxAtTrigger = [t \in AnomalyTypes |-> 0]
    /\ detectionsInRow = [t \in AnomalyTypes |-> 0]

\* ---- the gate's operations

\* the system clock advances
GateTick(d) ==
    /\ gateTicks < MaxGateTicks
    /\ clockMs' = clockMs + d
    /\ gateTicks' = gateTicks + 1
    /\ UNCHANGED <<m_activeAnomalies, m_responseActions, m_nxEventCallback,
                   enableSipIntegration, gateApiCalls, gateCalls, lastObs, lastFiredAt,
                   nxEventCalls, triggerRuns, nxAtTrigger, detectionsInRow>>
    /\ UNCHANGED notGate

\* processAnomaly(result) with result.isAnomaly = false: returns at once
ProcessNormal ==
    /\ UNCHANGED <<clockMs, m_activeAnomalies, m_responseActions, m_nxEventCallback,
                enableSipIntegration, gateTicks, gateApiCalls, gateCalls, lastObs,
                lastFiredAt, nxEventCalls, triggerRuns, nxAtTrigger>>
    /\ detectionsInRow' = [t \in AnomalyTypes |-> 0]
    /\ UNCHANGED notGate

\* processAnomaly(result) with result.isAnomaly = true: cleanupAnomalies,
\* get-or-create the tracker, verifyAnomaly, and triggerResponses when the
\* tracker is verified and has not responded yet
ProcessAnomaly(anomalyType, score) ==
    LET now == clockMs
        cleaned == CleanupAnomalies(m_activeAnomalies, now)
        isNew == cleaned[anomalyType] = NoTracker
        found == IF isNew THEN NewTracker(score, now)
                 ELSE UpdateTracker(cleaned[anomalyType], score, now)
        verified == VerifyAnomaly(score, found)
        checked == [found EXCEPT !.verified = verified]
        trigger == ShouldTrigger(checked)
        key == BucketFor(m_responseActions, anomalyType)
        pass == trigger /\ key # "none"
        actions == IF pass THEN m_responseActions[key].actions ELSE <<>>
        calls == CallbackInvocations(actions, now, m_nxEventCallback, enableSipIntegration)
    IN /\ gateCalls < MaxGateCalls
       /\ gateCalls' = gateCalls + 1
       /\ m_activeAnomalies' =
              [cleaned EXCEPT ![anomalyType] =
                  IF trigger THEN [checked EXCEPT !.responded = TRUE] ELSE checked]
       /\ m_responseActions' =
              IF pass
              THEN [m_responseActions EXCEPT ![key].actions =
                       TriggerResponses(actions, now, m_nxEventCallback, enableSipIntegration)]
              ELSE m_responseActions
       /\ lastObs' = [type |-> anomalyType, score |-> score,
                      wasVerified |-> (~isNew /\ cleaned[anomalyType].verified)]
       /\ lastFiredAt' =
              [k \in AnomalyTypes \X ActionNames |->
                  IF /\ k[1] = anomalyType
                     /\ \E i \in DOMAIN actions :
                           /\ actions[i].name = k[2]
                           /\ Fires(actions[i], now, m_nxEventCallback, enableSipIntegration)
                  THEN now ELSE lastFiredAt[k]]
       /\ nxEventCalls' = [nxEventCalls EXCEPT ![anomalyType] =
                              (IF isNew THEN 0 ELSE @) + calls]
       /\ triggerRuns' = [triggerRuns EXCEPT ![anomalyType] =
                             (IF isNew THEN 0 ELSE @) + (IF trigger THEN 1 ELSE 0)]
       /\ nxAtTrigger' = [nxAtTrigger EXCEPT ![anomalyType] =
                             IF trigger THEN NxEventActions(actions)
                             ELSE IF isNew THEN 0 ELSE @]
       /\ detectionsInRow' = [detectionsInRow EXCEPT ![anomalyType] = @ + 1]
       /\ UNCHANGED <<clockMs, m_nxEventCallback, enableSipIntegration,
                      gateTicks, gateApiCalls>>
       /\ UNCHANGED notGate

\* addResponseAction(anomalyType, action), called by a user of the protocol
AddResponseAction(anomalyType, action) ==
    /\ gateApiCalls < MaxGateApiCalls
    /\ gateApiCalls' = gateApiCalls + 1
    /\ m_responseActions' = AddAction(m_responseActions, anomalyType, action)
    /\ UNCHANGED <<clockMs, m_activeAnomalies, m_nxEventCallback, enableSipIntegration,
                   gateTicks, gateCalls, lastObs, lastFiredAt, nxEventCalls,
                   triggerRuns, nxAtTrigger,
                   detectionsInRow>>
    /\ UNCHANGED notGate

\* removeResponseAction(anomalyType, actionName)
RemoveResponseAction(anomalyType, actionName) ==
    /\ gateApiCalls < MaxGateApiCalls
    /\ gateApiCalls' = gateApiCalls + 1
    /\ m_responseActions' = RemoveAction(m_responseActions, anomalyType, actionName)
    /\ UNCHANGED <<clockMs, m_activeAnomalies, m_nxEventCallback, enableSipIntegration,
                   gateTicks, gateCalls, lastObs, lastFiredAt, nxEventCalls,
                   triggerRuns, nxAtTrigger,
                   detectionsInRow>>
    /\ UNCHANGED notGate

\* setNxEventCallback(callback)
SetNxEventCallback ==
    /\ ~m_nxEventCallback
    /\ m_nxEventCallback' = TRUE
    /\ UNCHANGED <<clockMs, m_activeAnomalies, m_responseActions, enableSipIntegration,
                   gateTicks, gateApiCalls, gateCalls, lastObs, lastFiredAt,
                   nxEventCalls, triggerRuns, nxAtTrigger,
                   detectionsInRow>>
    /\ UNCHANGED notGate

GateStep ==
    \/ \E d \in TimeStepsMs : GateTick(d)
    \/ ProcessNormal
    \/ \E t \in AnomalyTypes, s \in Scores : ProcessAnomaly(t, s)
    \/ \E t \in ApiTypes, a \in ApiActions : AddResponseAction(t, a)
    \/ \E t \in ApiTypes, n \in ApiNames : RemoveResponseAction(t, n)
    \/ SetNxEventCallback

(***************************************************************************)
(*                      ANOMALY ENGINE: definitions                        *)
(***************************************************************************)
\* ---- bounds of the detector model
MaxSamples == 101

\* ---- program constants of the detector
TrainThreshold == 100

\* ---- inputs
\* the hours of the day the frames fall in (the code keeps 24 such slots)
Hours == {0}
DetThreads == {1, 2}
NoOwner == 0

\* the places where a method touches m_timeModels or m_baselineData
AccessPcs == {"add_push", "reset_clear", "detect_read", "save_read", "load_write"}

IsTrained(model) == model > 0

\* ---- trainModels, between taking the lock and saveModel: every hour with
\* data gets a model trained on that data
TrainModels(data, models) ==
    [h \in Hours |-> IF data[h] > 0 THEN data[h] ELSE models[h]]

\* ---- saveModel: every trained model is written to its file
SaveModel(models, files) ==
    [h \in Hours |-> IF IsTrained(models[h]) THEN models[h] ELSE files[h]]

\* ---- loadModel: every existing file replaces its model
LoadModel(models, files) ==
    [h \in Hours |-> IF files[h] > 0 THEN files[h] ELSE models[h]]

\* ---- state of the detector after construction: the constructor loads the
\* model of every hour whose file exists
InitDetector ==
    /\ enableLearning \in BOOLEAN
    /\ m_baselineData = [h \in Hours |-> 0]
    /\ modelFile \in [Hours -> {0, TrainThreshold}]
    /\ m_timeModels = LoadModel([h \in Hours |-> 0], modelFile)
    /\ m_baselineMutex = NoOwner
    /\ detPc = [t \in DetThreads |-> "idle"]
    /\ reachedThreshold = [t \in DetThreads |-> FALSE]
    /\ resetsInRow = 0

ParkedDetector ==
    /\ enableLearning = TRUE
    /\ m_baselineData = [h \in Hours |-> 0]
    /\ m_timeModels = [h \in Hours |-> 0]
    /\ modelFile = [h \in Hours |-> 0]
    /\ m_baselineMutex = NoOwner
    /\ detPc = [t \in DetThreads |-> "idle"]
    /\ reachedThreshold = [t \in DetThreads |-> FALSE]
    /\ resetsInRow = 0

\* ---- the detector's operations, one step per lock operation or access

\* addToBaseline with learning disabled: returns at once
AddToBaselineDisabled(t) ==
    /\ detPc[t] = "idle"
    /\ ~enableLearning
    /\ UNCHANGED detVars
    /\ UNCHANGED notDetector

\* addToBaseline: std::lock_guard lock(m_baselineMutex)
AddToBaselineLock(t, h) ==
    /\ detPc[t] = "idle"
    /\ enableLearning
    /\ m_baselineData[h] < MaxSamples
    /\ m_baselineMutex = NoOwner
    /\ m_baselineMutex' = t
    /\ detPc' = [detPc EXCEPT ![t] = "add_push"]
    /\ reachedThreshold' = [reachedThreshold EXCEPT ![t] = FALSE]
    /\ UNCHANGED <<enableLearning, m_baselineData, m_timeModels, modelFile>>
    /\ UNCHANGED resetsInRow
    /\ UNCHANGED notDetector

\* addToBaseline: push_back, then either the call of trainModels or the end
\* of the locked block and the update of m_recentHistory
AddToBaselinePush(t, h) ==
    /\ detPc[t] = "add_push"
    /\ m_baselineData' = [m_baselineData EXCEPT ![h] = @ + 1]
    /\ IF m_baselineData[h] + 1 >= TrainThreshold
       THEN /\ detPc' = [detPc EXCEPT ![t] = "train_lock"]
            /\ reachedThreshold' = [reachedThreshold EXCEPT ![t] = TRUE]
            /\ UNCHANGED m_baselineMutex
       ELSE /\ detPc' = [detPc EXCEPT ![t] = "idle"]
            /\ m_baselineMutex' = NoOwner
            /\ UNCHANGED reachedThreshold
    /\ UNCHANGED <<enableLearning, m_timeModels, modelFile>>
    /\ resetsInRow' = 0
    /\ UNCHANGED notDetector

\* trainModels: std::lock_guard lock(m_baselineMutex). The mutex is a
\* std::mutex: locking it from the thread that owns it is undefined, and
\* the thread either never returns from lock() or lock() throws
\* std::system_error, which unwinds addToBaseline and releases its guard.
\* Taken by a thread that does not own the mutex, the lock is followed by
\* the training of every hour with data, saveModel and the return.
TrainModelsLock(t) ==
    /\ detPc[t] = "train_lock"
    /\ IF m_baselineMutex = t
       THEN \/ /\ detPc' = [detPc EXCEPT ![t] = "deadlocked"]
               /\ UNCHANGED m_baselineMutex
            \/ /\ detPc' = [detPc EXCEPT ![t] = "idle"]
               /\ m_baselineMutex' = NoOwner
            /\ UNCHANGED <<m_timeModels, modelFile>>
       ELSE /\ m_baselineMutex = NoOwner
            /\ m_timeModels' = TrainModels(m_baselineData, m_timeModels)
            /\ modelFile' = SaveModel(m_timeModels', modelFile)
            /\ m_baselineMutex' = NoOwner
            /\ detPc' = [detPc EXCEPT ![t] = "idle"]
    /\ UNCHANGED <<enableLearning, m_baselineData, reachedThreshold>>
    /\ resetsInRow' = 0
    /\ UNCHANGED notDetector

\* detectAnomaly: reads m_timeModels and the model of the hour
DetectAnomalyBegin(t) ==
    /\ detPc[t] = "idle"
    /\ detPc' = [detPc EXCEPT ![t] = "detect_read"]
    /\ UNCHANGED <<enableLearning, m_baselineData, m_timeModels, modelFile,
                   m_baselineMutex, reachedThreshold>>
    /\ UNCHANGED resetsInRow
    /\ UNCHANGED notDetector

DetectAnomalyEnd(t) ==
    /\ detPc[t] = "detect_read"
    /\ detPc' = [detPc EXCEPT ![t] = "idle"]
    /\ UNCHANGED <<enableLearning, m_baselineData, m_timeModels, modelFile,
                   m_baselineMutex, reachedThreshold>>
    /\ UNCHANGED resetsInRow
    /\ UNCHANGED notDetector

\* saveModel, called by a user of the detector
SaveModelBegin(t) ==
    /\ detPc[t] = "idle"
    /\ detPc' = [detPc EXCEPT ![t] = "save_read"]
    /\ UNCHANGED <<enableLearning, m_baselineData, m_timeModels, modelFile,
                   m_baselineMutex, reachedThreshold>>
    /\ UNCHANGED resetsInRow
    /\ UNCHANGED notDetector

SaveModelEnd(t) ==
    /\ detPc[t] = "save_read"
    /\ modelFile' = SaveModel(m_timeModels, modelFile)
    /\ detPc' = [detPc EXCEPT ![t] = "idle"]
    /\ UNCHANGED <<enableLearning, m_baselineData, m_timeModels,
                   m_baselineMutex, reachedThreshold>>
    /\ UNCHANGED resetsInRow
    /\ UNCHANGED notDetector

\* loadModel
LoadModelBegin(t) ==
    /\ detPc[t] = "idle"
    /\ detPc' = [detPc EXCEPT ![t] = "load_write"]
    /\ UNCHANGED <<enableLearning, m_baselineData, m_timeModels, modelFile,
                   m_baselineMutex, reachedThreshold>>
    /\ UNCHANGED resetsInRow
    /\ UNCHANGED notDetector

LoadModelEnd(t) ==
    /\ detPc[t] = "load_write"
    /\ m_timeModels' = LoadModel(m_timeModels, modelFile)
    /\ detPc' = [detPc EXCEPT ![t] = "idle"]
    /\ UNCHANGED <<enableLearning, m_baselineData, modelFile,
                   m_baselineMutex, reachedThreshold>>
    /\ resetsInRow' = 0
    /\ UNCHANGED notDetector

\* resetBaseline: std::lock_guard lock(m_baselineMutex)
ResetBaselineLock(t) ==
    /\ detPc[t] = "idle"
    /\ m_baselineMutex = NoOwner
    /\ m_baselineMutex' = t
    /\ detPc' = [detPc EXCEPT ![t] = "reset_clear"]
    /\ UNCHANGED <<enableLearning, m_baselineData, m_timeModels, modelFile,
                   reachedThreshold>>
    /\ UNCHANGED resetsInRow
    /\ UNCHANGED notDetector

\* resetBaseline that clears the buffers and keeps the models
ResetBaselineKeepModels(t) ==
    /\ detPc[t] = "reset_clear"
    /\ m_baselineData' = [h \in Hours |-> 0]
    /\ m_baselineMutex' = NoOwner
    /\ detPc' = [detPc EXCEPT ![t] = "idle"]
    /\ UNCHANGED <<enableLearning, m_timeModels, modelFile, reachedThreshold>>
    /\ resetsInRow' = IF resetsInRow < 2 THEN resetsInRow + 1 ELSE 2
    /\ UNCHANGED notDetector

\* resetBaseline: clears every buffer and replaces every model
ResetBaselineClear(t) ==
    /\ detPc[t] = "reset_clear"
    /\ m_baselineData' = [h \in Hours |-> 0]
    /\ m_timeModels' = [h \in Hours |-> 0]
    /\ m_baselineMutex' = NoOwner
    /\ detPc' = [detPc EXCEPT ![t] = "idle"]
    /\ UNCHANGED <<enableLearning, modelFile, reachedThreshold>>
    /\ resetsInRow' = IF resetsInRow < 2 THEN resetsInRow + 1 ELSE 2
    /\ UNCHANGED notDetector

DetectorStep ==
    \/ \E t \in DetThreads : AddToBaselineDisabled(t)
    \/ \E t \in DetThreads, h \in Hours : AddToBaselineLock(t, h)
    \/ \E t \in DetThreads, h \in Hours : AddToBaselinePush(t, h)
    \/ \E t \in DetThreads : TrainModelsLock(t)
    \/ \E t \in DetThreads : DetectAnomalyBegin(t)
    \/ \E t \in DetThreads : DetectAnomalyEnd(t)
    \/ \E t \in DetThreads : SaveModelBegin(t)
    \/ \E t \in DetThreads : SaveModelEnd(t)
    \/ \E t \in DetThreads : LoadModelBegin(t)
    \/ \E t \in DetThreads : LoadModelEnd(t)
    \/ \E t \in DetThreads : ResetBaselineLock(t)
    \/ \E t \in DetThreads : ResetBaselineClear(t)

(***************************************************************************)
(*                    ORACLE REQUEST QUEUE: definitions                    *)
(***************************************************************************)
\* ---- bounds of the oracle model
MaxSubmits == 3

\* ---- inputs
Callers == {1, 2}
NoCaller == 0

\* ---- state of the manager after construction: not running, no worker
InitOracle ==
    /\ llmRunning = FALSE
    /\ m_requestQueue = <<>>
    /\ llmWorkerPc = "not_started"
    /\ llmCurrent = NoCaller
    /\ promiseReady = [c \in Callers |-> FALSE]
    /\ callerPc = [c \in Callers |-> "idle"]
    /\ stopPc = "none"
    /\ llmSubmits = 0

ParkedOracle == InitOracle

\* ---- the manager's operations

\* initialize -> start: sets m_running and creates the worker thread
LlmStart ==
    /\ ~llmRunning
    /\ llmWorkerPc = "not_started"
    /\ llmRunning' = TRUE
    /\ llmWorkerPc' = "loop"
    /\ UNCHANGED <<m_requestQueue, llmCurrent, promiseReady, callerPc, stopPc,
                   llmSubmits>>
    /\ UNCHANGED notOracle

\* submitRequest followed by future.get(): the request is queued with a
\* callback that fulfils the promise, the worker is notified, and the
\* caller waits on the future without a timeout
SubmitRequest(c) ==
    /\ callerPc[c] = "idle"
    /\ llmSubmits < MaxSubmits
    /\ llmSubmits' = llmSubmits + 1
    /\ m_requestQueue' = Append(m_requestQueue, c)
    /\ promiseReady' = [promiseReady EXCEPT ![c] = FALSE]
    /\ callerPc' = [callerPc EXCEPT ![c] = "waiting"]
    /\ UNCHANGED <<llmRunning, llmWorkerPc, llmCurrent, stopPc>>
    /\ UNCHANGED notOracle

\* future.get() returns once the promise holds a value
FutureGet(c) ==
    /\ callerPc[c] = "waiting"
    /\ promiseReady[c]
    /\ callerPc' = [callerPc EXCEPT ![c] = "idle"]
    /\ UNCHANGED <<llmRunning, m_requestQueue, llmWorkerPc, llmCurrent,
                   promiseReady, stopPc, llmSubmits>>
    /\ UNCHANGED notOracle

\* workerFunction: while (m_running)
LlmLoopCheck ==
    /\ llmWorkerPc = "loop"
    /\ llmWorkerPc' = IF llmRunning THEN "wait" ELSE "exited"
    /\ UNCHANGED <<llmRunning, m_requestQueue, llmCurrent, promiseReady,
                   callerPc, stopPc, llmSubmits>>
    /\ UNCHANGED notOracle

\* workerFunction: the wait on the condition variable ends when the queue is
\* not empty or m_running is false (both are written under m_queueMutex);
\* the worker then leaves when m_running is false, else pops the front
LlmDequeue ==
    /\ llmWorkerPc = "wait"
    /\ m_requestQueue # <<>> \/ ~llmRunning
    /\ IF ~llmRunning
       THEN /\ llmWorkerPc' = "exited"
            /\ UNCHANGED <<m_requestQueue, llmCurrent>>
       ELSE /\ llmWorkerPc' = "sending"
            /\ llmCurrent' = Head(m_requestQueue)
            /\ m_requestQueue' = Tail(m_requestQueue)
    /\ UNCHANGED <<llmRunning, promiseReady, callerPc, stopPc, llmSubmits>>
    /\ UNCHANGED notOracle

\* workerFunction: sendRequest returns a response or throws, and in both
\* cases the callback fulfils the promise
LlmSendReturns ==
    /\ llmWorkerPc = "sending"
    /\ promiseReady' = [promiseReady EXCEPT ![llmCurrent] = TRUE]
    /\ llmCurrent' = NoCaller
    /\ llmWorkerPc' = "loop"
    /\ UNCHANGED <<llmRunning, m_requestQueue, callerPc, stopPc, llmSubmits>>
    /\ UNCHANGED notOracle

\* makeHttpRequest: curl_easy_perform is given no timeout, so a transfer the
\* peer never completes never returns
LlmSendStalls ==
    /\ llmWorkerPc = "sending"
    /\ llmWorkerPc' = "stalled"
    /\ UNCHANGED <<llmRunning, m_requestQueue, llmCurrent, promiseReady,
                   callerPc, stopPc, llmSubmits>>
    /\ UNCHANGED notOracle

\* stop: clears m_running under m_queueMutex, notifies, then joins
LlmStop ==
    /\ llmRunning
    /\ stopPc = "none"
    /\ llmRunning' = FALSE
    /\ stopPc' = "joining"
    /\ UNCHANGED <<m_requestQueue, llmWorkerPc, llmCurrent, promiseReady,
                   callerPc, llmSubmits>>
    /\ UNCHANGED notOracle

\* stop: m_workerThread.join() returns once the worker has left its loop
LlmStopJoined ==
    /\ stopPc = "joining"
    /\ llmWorkerPc = "exited"
    /\ stopPc' = "joined"
    /\ UNCHANGED <<llmRunning, m_requestQueue, llmWorkerPc, llmCurrent,
                   promiseReady, callerPc, llmSubmits>>
    /\ UNCHANGED notOracle

OracleWorkerStep ==
    \/ LlmLoopCheck
    \/ LlmDequeue
    \/ LlmSendReturns

OracleStep ==
    \/ LlmStart
    \/ \E c \in Callers : SubmitRequest(c)
    \/ \E c \in Callers : FutureGet(c)
    \/ OracleWorkerStep
    \/ LlmSendStalls
    \/ LlmStop
    \/ LlmStopJoined

(***************************************************************************)
(*                 COGNITIVE CORE AND STRATEGY MANAGER                     *)
(*  ReasoningSystem (nx_agent_reasoning.cpp) with its worker thread, the   *)
(*  threads that call it and the StrategyManager (nx_agent_strategy.cpp),  *)
(*  and the thread that destroys it.  The core runs without an oracle      *)
(*  (m_llmManager is null), so every function takes its rule-based branch. *)
(*  What a function does to the shared state is the sequence of its lock   *)
(*  acquisitions, releases and task-queue pushes, in source order; a       *)
(*  function whose branch depends on stored data has one sequence for      *)
(*  each branch.  A call repeated with the same locks is written once.     *)
(***************************************************************************)
MaxQueue == 2          \* waiting tasks the model tracks
MaxCoreCalls == 2      \* calls made by the calling threads
MaxCounted == 2        \* the count of tasks started after shutdown saturates here

NoHolder == 0
CoreWorker == 1
CoreClients == {2}
CoreThreads == {CoreWorker} \cup CoreClients

TaskTypes == {"PROCESS_ANALYSIS", "UPDATE_KNOWLEDGE", "EVALUATE_GOALS",
              "SELECT_ACTIONS", "EXECUTE_ACTION", "REFLECT"}

\* the per-map mutexes of the two classes; m_taskMutex guards the task queue
StoreLocks == {"goal", "knowledge", "action", "reasoning",
               "subject", "incident", "plan", "camera"}
CoreMutexes == StoreLocks \cup {"task", "state"}

Acq(m) == [op |-> "acq", arg |-> m]
Rel(m) == [op |-> "rel", arg |-> m]
\* lock m_taskMutex, push, unlock, notify_one
Push(type) == [op |-> "push", arg |-> type]
\* lock m_taskMutex, push, unlock; the worker is not notified
PushQuiet(type) == [op |-> "pushq", arg |-> type]
\* a std::lock_guard whose scope takes no other lock
Locked(m) == <<Acq(m), Rel(m)>>

\* the sequences of a function followed by those of the next one
Then(A, B) == {a \o b : a \in A, b \in B}

AddKnowledgeItemOps == Locked("knowledge") \o <<Push("UPDATE_KNOWLEDGE")>>
QueryKnowledgeOps == Locked("knowledge")
GetActiveGoalsOps == Locked("goal")
AddGoalOps == Locked("goal") \o <<Push("EVALUATE_GOALS")>>
CreateActionOps == Locked("action") \o <<Push("EXECUTE_ACTION")>>

PerceivePaths ==
    {AddKnowledgeItemOps \o AddKnowledgeItemOps \o <<Push("UPDATE_KNOWLEDGE")>>}

AssessSituationPaths ==
    {QueryKnowledgeOps \o AddKnowledgeItemOps \o <<Push("EVALUATE_GOALS")>>,
     QueryKnowledgeOps \o AddKnowledgeItemOps}

IdentifyThreatsPaths ==
    {QueryKnowledgeOps \o AddKnowledgeItemOps \o <<Push("EVALUATE_GOALS")>>,
     QueryKnowledgeOps}

\* the goal-update block: m_goalMutex is held over the whole loop, and
\* m_actionMutex is taken inside it for a VERIFY or RESPOND goal
UpdateGoalsBlocks ==
    {<<Acq("goal"), Acq("action"), Rel("action"), Rel("goal")>>,
     Locked("goal")}

UpdateGoalsPaths ==
    Then(Then({GetActiveGoalsOps \o QueryKnowledgeOps \o AddGoalOps,
               GetActiveGoalsOps \o QueryKnowledgeOps},
              UpdateGoalsBlocks),
         {<<Push("SELECT_ACTIONS")>>})

CognizePaths ==
    Then(Then(Then(AssessSituationPaths, IdentifyThreatsPaths), UpdateGoalsPaths),
         {<<Push("SELECT_ACTIONS")>>})

\* no active goal: return; otherwise the default action set of the goal type
PlanActionsPaths ==
    {GetActiveGoalsOps,
     GetActiveGoalsOps \o QueryKnowledgeOps \o CreateActionOps,
     GetActiveGoalsOps \o QueryKnowledgeOps \o CreateActionOps \o CreateActionOps}

EvaluatePerformanceOps == Locked("goal") \o Locked("action") \o Locked("state")
ReflectPaths == {EvaluatePerformanceOps \o <<PushQuiet("REFLECT")>>}

\* StrategyManager
GetAdjacentCamerasOps == Locked("camera")
GeneratePlanOps ==
    <<Acq("incident")>> \o GetAdjacentCamerasOps \o Locked("plan") \o <<Rel("incident")>>
CreateIncidentOps == Locked("incident") \o GeneratePlanOps
UpdateTrackedSubjectOps == Locked("subject")
GetRecommendedCameraOps == Locked("incident") \o Locked("subject") \o Locked("camera")
UpdateIncidentPaths ==
    {<<Acq("incident"), Acq("plan"), Rel("plan"), Rel("incident")>>,
     Locked("incident")}
StrategyCleanupOldDataOps == Locked("subject") \o Locked("incident") \o Locked("plan")
StrategyProcessAnalysisResultPaths ==
    {UpdateTrackedSubjectOps \o CreateIncidentOps \o StrategyCleanupOldDataOps,
     UpdateTrackedSubjectOps \o StrategyCleanupOldDataOps}

\* ReasoningSystem::executeAction by action type; each ends by recording
\* the result under m_actionMutex, except the types that only add knowledge
ExecuteActionBodies ==
    {GetRecommendedCameraOps \o Locked("action"),
     QueryKnowledgeOps \o AddKnowledgeItemOps \o Locked("action"),
     CreateIncidentOps \o Locked("action"),
     Locked("subject") \o AddKnowledgeItemOps \o Locked("action"),
     Locked("action"),
     AddKnowledgeItemOps}

\* "lock.unlock()" in the EXECUTE_ACTION case of executeTask.  The guard it
\* is called on is a std::lock_guard, which has no such member: either the
\* guard gives m_actionMutex up there, as the comment "Release lock before
\* executing" intends, or it owns the mutex to the end of the case, as a
\* std::lock_guard does.
ReleaseBeforeExecuting == {<<Rel("action")>>, <<>>}

\* the action is not found, or it is marked IN_PROGRESS, executed, and its
\* result recorded under a second guard of m_actionMutex
ExecuteActionTaskPaths ==
    {Locked("action")}
    \cup Then(Then(Then({<<Acq("action")>>}, ReleaseBeforeExecuting),
                   ExecuteActionBodies),
              {Locked("action")})

\* ReasoningSystem::executeTask
ExecuteTaskPaths(type) ==
    CASE type = "PROCESS_ANALYSIS" -> PerceivePaths
      [] type = "UPDATE_KNOWLEDGE" -> CognizePaths
      [] type = "EVALUATE_GOALS" -> UpdateGoalsPaths
      [] type = "SELECT_ACTIONS" -> PlanActionsPaths
      [] type = "EXECUTE_ACTION" -> ExecuteActionTaskPaths
      [] OTHER -> ReflectPaths

RunningNeverSeenCleared == TRUE
\* a read of the plain bool m_running by the worker thread
RunningSeenByWorker == m_running

HeldBy(t) == {m \in CoreMutexes : mutexOwner[m] = t}
Unlock(owners, m) == [owners EXCEPT ![m] = NoHolder]
\* an exception that left the locks of the thread locked
KeepLocked(owners, t) == owners

\* the lock guards of thread t are destroyed
UnlockAll(owners, t) == [m \in CoreMutexes |-> IF owners[m] = t THEN NoHolder ELSE owners[m]]

\* m_taskQueue.push; a task pushed onto a full model queue is not tracked
Enqueue(queue, type) == IF Len(queue) < MaxQueue THEN Append(queue, type) ELSE queue

\* a thread can take its next step: a mutex it locks is free
OpEnabled(o) ==
    CASE o.op = "acq" -> mutexOwner[o.arg] = NoHolder
      [] o.op \in {"push", "pushq"} -> mutexOwner["task"] = NoHolder
      [] OTHER -> TRUE

\* what the step does to the mutexes and to the task queue
OpEffect(t, o) ==
    /\ mutexOwner' = CASE o.op = "acq" -> [mutexOwner EXCEPT ![o.arg] = t]
                       [] o.op = "rel" -> Unlock(mutexOwner, o.arg)
                       [] OTHER -> mutexOwner
    /\ m_taskQueue' = IF o.op \in {"push", "pushq"}
                      THEN Enqueue(m_taskQueue, o.arg)
                      ELSE m_taskQueue

\* m_taskCondition.notify_one / notify_all: only a thread blocked in wait is woken
Notified(pc) == IF pc = "blocked" THEN "woken" ELSE pc

\* the state after initialize() has started the worker thread; the
\* initializing thread still has its two addGoal calls to make
InitCore ==
    /\ m_running = TRUE
    /\ m_taskQueue = <<>>
    /\ mutexOwner = [m \in CoreMutexes |-> NoHolder]
    /\ workerPc = "loop"
    /\ workerTask = "NONE"
    /\ workerOps = <<>>
    /\ callerOps = [c \in CoreClients |-> AddGoalOps \o AddGoalOps]
    /\ dtorPc = "none"
    /\ coreCalls = 0
    /\ startedAfterShutdown = 0

ParkedCore == InitCore

(* ---- the calling threads ---- *)
BeginCall(c, ops) ==
    /\ dtorPc = "none"
    /\ callerOps[c] = <<>>
    /\ coreCalls < MaxCoreCalls
    /\ coreCalls' = coreCalls + 1
    /\ callerOps' = [callerOps EXCEPT ![c] = ops]
    /\ UNCHANGED <<m_running, m_taskQueue, mutexOwner, workerPc, workerTask,
                   workerOps, dtorPc, startedAfterShutdown>>
    /\ UNCHANGED notCore

ProcessAnalysisResult(c) == BeginCall(c, <<Push("PROCESS_ANALYSIS")>>)

AddGoal(c) == BeginCall(c, AddGoalOps)

ExecuteCognitiveCycle(c) == BeginCall(c, <<Push("REFLECT")>>)

StrategyProcessAnalysisResult(c) ==
    \E ops \in StrategyProcessAnalysisResultPaths : BeginCall(c, ops)

UpdateIncident(c) == \E ops \in UpdateIncidentPaths : BeginCall(c, ops)

\* the next lock, unlock or push of the call the thread is in
ClientStep(c) ==
    /\ callerOps[c] # <<>>
    /\ LET o == Head(callerOps[c]) IN
        /\ OpEnabled(o)
        /\ OpEffect(c, o)
        /\ workerPc' = IF o.op = "push" THEN Notified(workerPc) ELSE workerPc
    /\ callerOps' = [callerOps EXCEPT ![c] = Tail(callerOps[c])]
    /\ UNCHANGED <<m_running, workerTask, workerOps, dtorPc, coreCalls,
                   startedAfterShutdown>>
    /\ UNCHANGED notCore

(* ---- ReasoningSystem::workerFunction ---- *)
\* while (m_running)
WorkerLoopCheck ==
    /\ workerPc = "loop"
    /\ workerPc' = IF RunningSeenByWorker THEN "lock" ELSE "exited"
    /\ UNCHANGED <<m_running, m_taskQueue, mutexOwner, workerTask, workerOps,
                   callerOps, dtorPc, coreCalls, startedAfterShutdown>>
    /\ UNCHANGED notCore

\* std::unique_lock lock(m_taskMutex), and the re-lock when wait wakes up
WorkerLock ==
    /\ workerPc \in {"lock", "woken"}
    /\ mutexOwner["task"] = NoHolder
    /\ mutexOwner' = [mutexOwner EXCEPT !["task"] = CoreWorker]
    /\ workerPc' = "pred"
    /\ UNCHANGED <<m_running, m_taskQueue, workerTask, workerOps, callerOps,
                   dtorPc, coreCalls, startedAfterShutdown>>
    /\ UNCHANGED notCore

\* the predicate of m_taskCondition.wait: !m_taskQueue.empty() || !m_running
WorkerWaitPredicate ==
    /\ workerPc = "pred"
    /\ workerPc' = IF m_taskQueue # <<>> \/ ~RunningSeenByWorker
                   THEN "check" ELSE "about_to_block"
    /\ UNCHANGED <<m_running, m_taskQueue, mutexOwner, workerTask, workerOps,
                   callerOps, dtorPc, coreCalls, startedAfterShutdown>>
    /\ UNCHANGED notCore

\* the predicate was false: wait releases the mutex and blocks
WorkerWait ==
    /\ workerPc = "about_to_block"
    /\ mutexOwner' = Unlock(mutexOwner, "task")
    /\ workerPc' = "blocked"
    /\ UNCHANGED <<m_running, m_taskQueue, workerTask, workerOps, callerOps,
                   dtorPc, coreCalls, startedAfterShutdown>>
    /\ UNCHANGED notCore

\* if (!m_running) break
WorkerRunningCheck ==
    /\ workerPc = "check"
    /\ IF RunningSeenByWorker
       THEN workerPc' = "pop" /\ UNCHANGED mutexOwner
       ELSE workerPc' = "exited" /\ mutexOwner' = Unlock(mutexOwner, "task")
    /\ UNCHANGED <<m_running, m_taskQueue, workerTask, workerOps, callerOps,
                   dtorPc, coreCalls, startedAfterShutdown>>
    /\ UNCHANGED notCore

\* front, pop, unlock, and the call of executeTask
WorkerPop ==
    /\ workerPc = "pop"
    /\ mutexOwner' = Unlock(mutexOwner, "task")
    /\ IF m_taskQueue # <<>>
       THEN /\ workerTask' = Head(m_taskQueue)
            /\ m_taskQueue' = Tail(m_taskQueue)
            /\ \E path \in ExecuteTaskPaths(Head(m_taskQueue)) : workerOps' = path
            /\ workerPc' = "exec"
            /\ startedAfterShutdown' =
                   IF dtorPc \in {"notified", "joined"} /\ startedAfterShutdown < MaxCounted
                   THEN startedAfterShutdown + 1
                   ELSE startedAfterShutdown
       ELSE /\ workerPc' = "loop"
            /\ UNCHANGED <<workerTask, m_taskQueue, workerOps, startedAfterShutdown>>
    /\ UNCHANGED <<m_running, callerOps, dtorPc, coreCalls>>
    /\ UNCHANGED notCore

\* the next lock, unlock or push of the task, or a failure raised at this
\* point of it: the exception unwinds the lock guards of the task and is
\* caught by the worker.  Locking a std::mutex the thread already owns is
\* undefined: the thread deadlocks, or lock() throws std::system_error.
WorkerExecStep ==
    /\ workerPc = "exec"
    /\ workerOps # <<>>
    /\ LET o == Head(workerOps) IN
        \/ /\ o.op = "acq" /\ mutexOwner[o.arg] = CoreWorker
           /\ workerPc' = "deadlocked"
           /\ UNCHANGED <<mutexOwner, m_taskQueue, workerOps>>
        \/ /\ mutexOwner' = UnlockAll(mutexOwner, CoreWorker)
           /\ workerOps' = <<>>
           /\ workerPc' = "caught"
           /\ UNCHANGED m_taskQueue
        \/ /\ ~(o.op = "acq" /\ mutexOwner[o.arg] = CoreWorker)
           /\ OpEnabled(o)
           /\ OpEffect(CoreWorker, o)
           /\ workerOps' = Tail(workerOps)
           /\ UNCHANGED workerPc
    /\ UNCHANGED <<m_running, workerTask, callerOps, dtorPc, coreCalls,
                   startedAfterShutdown>>
    /\ UNCHANGED notCore

\* catch (const std::exception&): the error is logged, next iteration
WorkerCatch ==
    /\ workerPc = "caught"
    /\ workerPc' = "loop"
    /\ UNCHANGED <<m_running, m_taskQueue, mutexOwner, workerTask, workerOps,
                   callerOps, dtorPc, coreCalls, startedAfterShutdown>>
    /\ UNCHANGED notCore

\* executeTask returned: next iteration
WorkerTaskDone ==
    /\ workerPc = "exec"
    /\ workerOps = <<>>
    /\ workerPc' = "loop"
    /\ UNCHANGED <<m_running, m_taskQueue, mutexOwner, workerTask, workerOps,
                   callerOps, dtorPc, coreCalls, startedAfterShutdown>>
    /\ UNCHANGED notCore

WorkerStep ==
    \/ WorkerLoopCheck
    \/ WorkerLock
    \/ WorkerWaitPredicate
    \/ WorkerWait
    \/ WorkerRunningCheck
    \/ WorkerPop
    \/ WorkerExecStep
    \/ WorkerCatch
    \/ WorkerTaskDone

(* ---- ReasoningSystem::~ReasoningSystem ---- *)
\* m_running = false, written without m_taskMutex
ShutdownClearRunning ==
    /\ dtorPc = "none"
    /\ \A c \in CoreClients : callerOps[c] = <<>>
    /\ m_running' = FALSE
    /\ dtorPc' = "cleared"
    /\ UNCHANGED <<m_taskQueue, mutexOwner, workerPc, workerTask, workerOps,
                   callerOps, coreCalls, startedAfterShutdown>>
    /\ UNCHANGED notCore

\* m_taskCondition.notify_all()
ShutdownNotifyAll ==
    /\ dtorPc = "cleared"
    /\ workerPc' = Notified(workerPc)
    /\ dtorPc' = "notified"
    /\ UNCHANGED <<m_running, m_taskQueue, mutexOwner, workerTask, workerOps,
                   callerOps, coreCalls, startedAfterShutdown>>
    /\ UNCHANGED notCore

\* m_workerThread.join() returns once the worker has left workerFunction
ShutdownJoin ==
    /\ dtorPc = "notified"
    /\ workerPc = "exited"
    /\ dtorPc' = "joined"
    /\ UNCHANGED <<m_running, m_taskQueue, mutexOwner, workerPc, workerTask,
                   workerOps, callerOps, coreCalls, startedAfterShutdown>>
    /\ UNCHANGED notCore

CoreStep ==
    \/ \E c \in CoreClients : ProcessAnalysisResult(c)
    \/ \E c \in CoreClients : AddGoal(c)
    \/ \E c \in CoreClients : ExecuteCognitiveCycle(c)
    \/ \E c \in CoreClients : StrategyProcessAnalysisResult(c)
    \/ \E c \in CoreClients : UpdateIncident(c)
    \/ \E c \in CoreClients : ClientStep(c)
    \/ WorkerStep
    \/ ShutdownClearRunning
    \/ ShutdownNotifyAll
    \/ ShutdownJoin

(***************************************************************************)
(*                      STRATEGY STORES: definitions                       *)
(*  The data StrategyManager keeps: tracked subjects, incidents and plans, *)
(*  as one caller at a time changes them.  An incident id is the number of *)
(*  the incident in creation order and a plan id the number of the plan.   *)
(***************************************************************************)
MaxStrategyTicks == 2
MaxStrategyCalls == 3
MaxIncidents == 2
StrategyStartMs == 5000000

SubjectExpiryMinutes == 10
IncidentExpiryMinutes == 30
PlanExpiryHours == 24

TrackIds == {"track-1"}
IncidentStatuses == {"NEW", "INVESTIGATING", "CONFIRMED", "FALSE_ALARM", "RESOLVED"}
PlanStatuses == {"DRAFT", "ACTIVE", "COMPLETED", "CANCELLED"}
\* ten and a half minutes, and thirty and a half
StrategyStepsMs == {630000, 1830000}

\* std::chrono::duration_cast<minutes> and <hours> of a non-negative duration
WholeMinutes(ms) == ms \div 60000
WholeHours(ms) == ms \div 3600000

\* createTrackedSubject followed by TrackedSubject::update
TrackedSubject(now) == [firstSeen |-> now, lastSeen |-> now]

\* updateTrackedSubject for every object of the frame
UpdateTrackedSubjects(subjects, tracks, now) ==
    [t \in DOMAIN subjects \cup tracks |->
        IF t \in tracks
        THEN IF t \in DOMAIN subjects
             THEN [subjects[t] EXCEPT !.lastSeen = now]
             ELSE TrackedSubject(now)
        ELSE subjects[t]]

SecurityIncident(now) == [status |-> "NEW", updateTime |-> now]

IncidentUpdateStatus(incident, newStatus, now) ==
    [incident EXCEPT !.status = newStatus, !.updateTime = now]

\* generatePlanWithLLM that leaves plan.incidentId unset
StrategicPlanUnlinked(incidentId, now) ==
    [incidentId |-> 0, status |-> "ACTIVE", createTime |-> now]

StrategicPlan(incidentId, now) ==
    [incidentId |-> incidentId, status |-> "ACTIVE", createTime |-> now]

PlanUpdateStatus(plan, newStatus) == [plan EXCEPT !.status = newStatus]

IsActiveIncident(incident) == incident.status \notin {"RESOLVED", "FALSE_ALARM"}

CleanupSubjects(subjects, now) ==
    LET kept == {t \in DOMAIN subjects :
                    ~(WholeMinutes(now - subjects[t].lastSeen) > SubjectExpiryMinutes)}
    IN  [t \in kept |-> subjects[t]]

CleanupIncidents(incidents, now) ==
    [i \in DOMAIN incidents |->
        IF /\ IsActiveIncident(incidents[i])
           /\ WholeMinutes(now - incidents[i].updateTime) > IncidentExpiryMinutes
        THEN IncidentUpdateStatus(incidents[i], "RESOLVED", now)
        ELSE incidents[i]]

CleanupPlans(plans, now) ==
    LET kept == {p \in DOMAIN plans :
                    ~(/\ WholeHours(now - plans[p].createTime) > PlanExpiryHours
                      /\ plans[p].status # "ACTIVE")}
    IN  [p \in kept |-> plans[p]]

GetTrackedSubjects == DOMAIN m_subjects

\* lastAnalysis while the last call was not processAnalysisResult
NoAnalysis == [ran |-> FALSE, isAnomaly |-> FALSE, incidentsBefore |-> 0]

InitStore ==
    /\ strategyClockMs = StrategyStartMs
    /\ m_subjects = << >>
    /\ m_incidents = << >>
    /\ m_plans = << >>
    /\ plansMade = 0
    /\ strategyTicks = 0
    /\ strategyCalls = 0
    /\ lastAnalysis = NoAnalysis

ParkedStore == InitStore

StrategyTick(d) ==
    /\ strategyTicks < MaxStrategyTicks
    /\ strategyTicks' = strategyTicks + 1
    /\ strategyClockMs' = strategyClockMs + d
    /\ UNCHANGED <<m_subjects, m_incidents, m_plans, plansMade, strategyCalls,
                   lastAnalysis>>
    /\ UNCHANGED notStore

\* StrategyManager::processAnalysisResult: the frame's objects, the incident
\* and its plan when the frame is an anomaly, then cleanupOldData
StoreProcessAnalysisResult(tracks, isAnomaly) ==
    LET now == strategyClockMs
        opens == isAnomaly
        incidents == IF opens THEN Append(m_incidents, SecurityIncident(now))
                     ELSE m_incidents
        planId == plansMade + 1
        plans == IF opens
                 THEN [p \in DOMAIN m_plans \cup {planId} |->
                          IF p = planId THEN StrategicPlan(Len(incidents), now)
                          ELSE m_plans[p]]
                 ELSE m_plans
    IN  /\ strategyCalls < MaxStrategyCalls
        /\ isAnomaly => Len(m_incidents) < MaxIncidents
        /\ strategyCalls' = strategyCalls + 1
        /\ m_subjects' = CleanupSubjects(UpdateTrackedSubjects(m_subjects, tracks, now), now)
        /\ m_incidents' = CleanupIncidents(incidents, now)
        /\ m_plans' = CleanupPlans(plans, now)
        /\ plansMade' = IF opens THEN planId ELSE plansMade
        /\ lastAnalysis' = [ran |-> TRUE, isAnomaly |-> isAnomaly,
                            incidentsBefore |-> Len(m_incidents)]
        /\ UNCHANGED <<strategyClockMs, strategyTicks>>
        /\ UNCHANGED notStore

\* StrategyManager::updateIncident
StoreUpdateIncident(incidentId, status) ==
    /\ strategyCalls < MaxStrategyCalls
    /\ strategyCalls' = strategyCalls + 1
    /\ IF incidentId \in DOMAIN m_incidents
       THEN /\ m_incidents' = [m_incidents EXCEPT
                   ![incidentId] = IncidentUpdateStatus(@, status, strategyClockMs)]
            /\ m_plans' = IF status \in {"RESOLVED", "FALSE_ALARM"}
                          THEN [p \in DOMAIN m_plans |->
                                   IF m_plans[p].incidentId = incidentId
                                   THEN PlanUpdateStatus(m_plans[p], "COMPLETED")
                                   ELSE m_plans[p]]
                          ELSE m_plans
       ELSE UNCHANGED <<m_incidents, m_plans>>
    /\ lastAnalysis' = NoAnalysis
    /\ UNCHANGED <<strategyClockMs, m_subjects, plansMade, strategyTicks>>
    /\ UNCHANGED notStore

\* StrategyManager::updatePlan
StoreUpdatePlan(planId, status) ==
    /\ strategyCalls < MaxStrategyCalls
    /\ strategyCalls' = strategyCalls + 1
    /\ IF planId \in DOMAIN m_plans
       THEN m_plans' = [m_plans EXCEPT ![planId] = PlanUpdateStatus(@, status)]
       ELSE UNCHANGED m_plans
    /\ lastAnalysis' = NoAnalysis
    /\ UNCHANGED <<strategyClockMs, m_subjects, m_incidents, plansMade, strategyTicks>>
    /\ UNCHANGED notStore

StoreStep ==
    \/ \E d \in StrategyStepsMs : StrategyTick(d)
    \/ \E tracks \in SUBSET TrackIds, isAnomaly \in BOOLEAN :
           StoreProcessAnalysisResult(tracks, isAnomaly)
    \/ \E i \in 1..MaxIncidents, status \in IncidentStatuses : StoreUpdateIncident(i, status)
    \/ \E p \in 1..MaxIncidents, status \in PlanStatuses : StoreUpdatePlan(p, status)

(***************************************************************************)
(*                     GOALS AND ACTIONS: definitions                      *)
(*  The goals and actions ReasoningSystem keeps, as its public functions   *)
(*  and its worker's tasks change them.  The worker is one thread and the  *)
(*  functions take m_goalMutex or m_actionMutex, so each is one step.  A   *)
(*  goal id is the number of the goal in creation order, an action id the  *)
(*  number of the action; progress is in thousandths.                      *)
(***************************************************************************)
MaxGoals == 4
MaxActions == 2
MaxGoalCalls == 5

GoalTypes == {"MONITOR", "DETECT", "VERIFY", "RESPOND", "OPTIMIZE"}
GoalStatuses == {"PENDING", "IN_PROGRESS", "ACHIEVED", "FAILED", "ABANDONED"}

\* the goal ReasoningSystem::addGoal stores
Goal(type) == [type |-> type, status |-> "PENDING", progress |-> 0]

\* the action ReasoningSystem::createAction stores
Action(goalId) == [goalId |-> goalId, status |-> "PENDING"]

GoalIsActive(goal) == goal.status \in {"PENDING", "IN_PROGRESS"}
GoalIsCompleted(goal) == goal.status \in {"ACHIEVED", "FAILED", "ABANDONED"}
ActionIsComplete(action) == action.status \in {"COMPLETED", "FAILED", "CANCELLED"}

\* the goals updateGoals adds before it evaluates
GoalsToAdd(goals, hasThreat, hasAnomaly, highScore) ==
    LET hasActive(type) == \E g \in DOMAIN goals :
                               GoalIsActive(goals[g]) /\ goals[g].type = type
        verify == IF (hasThreat \/ hasAnomaly) /\ ~hasActive("VERIFY")
                  THEN <<Goal("VERIFY")>> ELSE << >>
        respond == IF (hasThreat \/ hasAnomaly) /\ ~hasActive("RESPOND") /\ highScore
                   THEN <<Goal("RESPOND")>> ELSE << >>
    IN  verify \o respond

\* the linked actions of goal g, and those of them that are complete
LinkedActions(actions, g) == {a \in DOMAIN actions : actions[a].goalId = g}
CompletedActions(actions, g) ==
    {a \in LinkedActions(actions, g) : ActionIsComplete(actions[a])}

\* an evaluation loop that sets the status and forgets the progress
EvaluateGoalStatusOnly(goal, g, actions, hasAnomaly) ==
    LET total == Cardinality(LinkedActions(actions, g))
        done == Cardinality(CompletedActions(actions, g))
    IN  IF GoalIsCompleted(goal) THEN goal
        ELSE IF goal.type = "DETECT"
        THEN IF hasAnomaly
             THEN [goal EXCEPT !.progress = 1000, !.status = "ACHIEVED"]
             ELSE goal
        ELSE IF goal.type \in {"VERIFY", "RESPOND"} /\ total > 0
        THEN [goal EXCEPT !.status = IF done = total THEN "ACHIEVED" ELSE @]
        ELSE goal

\* one pass of the evaluation loop of updateGoals over goal g
EvaluateGoal(goal, g, actions, hasAnomaly) ==
    LET linked == {a \in DOMAIN actions : actions[a].goalId = g}
        completed == {a \in linked : ActionIsComplete(actions[a])}
        total == Cardinality(linked)
        done == Cardinality(completed)
    IN  IF GoalIsCompleted(goal) THEN goal
        ELSE IF goal.type = "DETECT"
        THEN IF hasAnomaly
             THEN [goal EXCEPT !.progress = 1000, !.status = "ACHIEVED"]
             ELSE goal
        ELSE IF goal.type \in {"VERIFY", "RESPOND"} /\ total > 0
        THEN [goal EXCEPT !.progress = (done * 1000) \div total,
                          !.status = IF done = total THEN "ACHIEVED" ELSE @]
        ELSE goal

\* lastEvaluation while the last operation was not updateGoals
NoEvaluation == [ran |-> FALSE, hasThreat |-> FALSE, hasAnomaly |-> FALSE]

\* after ReasoningSystem::initialize
InitGoals ==
    /\ m_goals = <<Goal("MONITOR"), Goal("OPTIMIZE")>>
    /\ m_actions = << >>
    /\ goalCalls = 0
    /\ lastEvaluation = NoEvaluation

ParkedGoals == InitGoals

\* ReasoningSystem::addGoal
GoalsAddGoal(type) ==
    /\ goalCalls < MaxGoalCalls
    /\ Len(m_goals) < MaxGoals
    /\ goalCalls' = goalCalls + 1
    /\ m_goals' = Append(m_goals, Goal(type))
    /\ UNCHANGED m_actions
    /\ lastEvaluation' = NoEvaluation
    /\ UNCHANGED notGoals

\* ReasoningSystem::updateGoalStatus
GoalsUpdateGoalStatus(g, status) ==
    /\ goalCalls < MaxGoalCalls
    /\ goalCalls' = goalCalls + 1
    /\ IF g \in DOMAIN m_goals
       THEN m_goals' = [m_goals EXCEPT ![g] =
                [@ EXCEPT !.status = status,
                          !.progress = IF status \in {"ACHIEVED", "FAILED"}
                                       THEN 1000 ELSE @]]
       ELSE UNCHANGED m_goals
    /\ UNCHANGED m_actions
    /\ lastEvaluation' = NoEvaluation
    /\ UNCHANGED notGoals

\* ReasoningSystem::updateGoals, the EVALUATE_GOALS task
GoalsUpdateGoals(hasThreat, hasAnomaly, highScore) ==
    LET goals == m_goals \o GoalsToAdd(m_goals, hasThreat, hasAnomaly, highScore)
    IN  /\ goalCalls < MaxGoalCalls
        /\ Len(goals) <= MaxGoals
        /\ goalCalls' = goalCalls + 1
        /\ m_goals' = [g \in DOMAIN goals |->
                          EvaluateGoal(goals[g], g, m_actions, hasAnomaly)]
        /\ UNCHANGED m_actions
        /\ lastEvaluation' = [ran |-> TRUE, hasThreat |-> hasThreat,
                              hasAnomaly |-> hasAnomaly]
        /\ UNCHANGED notGoals

\* ReasoningSystem::createAction; goalId names a goal that exists or none
\* (0): generateUniqueId gives no later goal an id already in use
GoalsCreateAction(g) ==
    /\ goalCalls < MaxGoalCalls
    /\ g <= Len(m_goals)
    /\ Len(m_actions) < MaxActions
    /\ goalCalls' = goalCalls + 1
    /\ m_actions' = Append(m_actions, Action(g))
    /\ UNCHANGED m_goals
    /\ lastEvaluation' = NoEvaluation
    /\ UNCHANGED notGoals

\* ReasoningSystem::executeTask, the EXECUTE_ACTION task of action a
GoalsExecuteAction(a, success) ==
    /\ goalCalls < MaxGoalCalls
    /\ a \in DOMAIN m_actions
    /\ goalCalls' = goalCalls + 1
    /\ m_actions' = [m_actions EXCEPT ![a].status =
                         IF success THEN "COMPLETED" ELSE "FAILED"]
    /\ UNCHANGED m_goals
    /\ lastEvaluation' = NoEvaluation
    /\ UNCHANGED notGoals

GoalsStep ==
    \/ \E type \in GoalTypes : GoalsAddGoal(type)
    \/ \E g \in 1..MaxGoals, status \in GoalStatuses : GoalsUpdateGoalStatus(g, status)
    \/ \E hasThreat \in BOOLEAN, hasAnomaly \in BOOLEAN, highScore \in BOOLEAN :
           GoalsUpdateGoals(hasThreat, hasAnomaly, highScore)
    \/ \E g \in 0..MaxGoals : GoalsCreateAction(g)
    \/ \E a \in 1..MaxActions, success \in BOOLEAN : GoalsExecuteAction(a, success)

(***************************************************************************)
(*                        TASK ORDER: definitions                          *)
(*  The order in which the worker of ReasoningSystem is handed the tasks.  *)
(*  Every push and the worker's front/pop are made under m_taskMutex, so   *)
(*  each is one step.  A task's id is its number in push order.            *)
(***************************************************************************)
MaxTasks == 4

\* task.priority as the pushing functions set it: the cognitive cycle's 1,
\* addGoal's 5 and an anomalous analysis result's 10
TaskPriorities == {1, 5, 10}

\* a queue that would hand out the most urgent task first
QueuePushByPriority(queue, task) ==
    LET ahead == {k \in DOMAIN queue : queue[k].priority >= task.priority}
        n == Cardinality(ahead)
    IN  [k \in 1..(Len(queue) + 1) |->
            IF k <= n THEN queue[k]
            ELSE IF k = n + 1 THEN task
            ELSE queue[k - 1]]

\* std::queue<Task>::push
QueuePush(queue, task) == Append(queue, task)

\* the highest priority among the tasks that stay queued behind the front
WaitingPriority(queue) ==
    IF Len(queue) < 2 THEN 0
    ELSE CHOOSE p \in TaskPriorities :
             /\ \E k \in 2..Len(queue) : queue[k].priority = p
             /\ \A k \in 2..Len(queue) : queue[k].priority <= p

InitTasks ==
    /\ queuedTasks = << >>
    /\ tasksPushed = 0
    /\ taskRunning = FALSE
    /\ executedTasks = << >>

ParkedTasks == InitTasks

\* any of the functions that push a task, from any thread
TaskPush(priority) ==
    /\ tasksPushed < MaxTasks
    /\ tasksPushed' = tasksPushed + 1
    /\ queuedTasks' = QueuePush(queuedTasks, [id |-> tasksPushed + 1, priority |-> priority])
    /\ UNCHANGED <<taskRunning, executedTasks>>
    /\ UNCHANGED notTasks

\* workerFunction: front, pop and the call of executeTask
TaskPop ==
    /\ ~taskRunning
    /\ queuedTasks # << >>
    /\ taskRunning' = TRUE
    /\ queuedTasks' = Tail(queuedTasks)
    /\ executedTasks' = Append(executedTasks,
           [id |-> Head(queuedTasks).id, priority |-> Head(queuedTasks).priority,
            waiting |-> WaitingPriority(queuedTasks)])
    /\ UNCHANGED tasksPushed
    /\ UNCHANGED notTasks

\* workerFunction: executeTask returned, or what it threw was caught
TaskDone ==
    /\ taskRunning
    /\ taskRunning' = FALSE
    /\ UNCHANGED <<queuedTasks, tasksPushed, executedTasks>>
    /\ UNCHANGED notTasks

TasksStep ==
    \/ \E priority \in TaskPriorities : TaskPush(priority)
    \/ TaskPop
    \/ TaskDone

(***************************************************************************)
(*                      FRAME PIPELINE: definitions                        *)
(*  NxAgentSystem::processFrame for one camera: the MetadataAnalyzer, the  *)
(*  AnomalyDetector and the hand-over to the ResponseProtocol, under       *)
(*  components.mutex, so a frame is one step.  A frame shows at most one   *)
(*  person, an unrecognised visitor with a fixed track id, and no vehicle. *)
(*  Learning is off (enableLearning = false, as runUnknownVisitorTest sets *)
(*  it), so the models are those the detector's constructor loaded.        *)
(***************************************************************************)
\* ---- bounds of the pipeline model
MaxFrames == 5
PipeStartTimestampMs == 3597000
UnknownVisitorThresholdSecs == 2

\* ---- program constants of the pipeline
AnomalyThreshold == 700

\* ---- inputs
\* the clock when the first frame is processed: the frame's own time (a live
\* camera) or ten in the morning (recorded footage played back)
PipeStartNowMs == {PipeStartTimestampMs, 36000000}
\* the frames are one second apart; they are processed one second apart
\* (live) or a tenth of a second apart (played back, as the tests do)
FrameIntervalMs == 1000
ProcessingIntervalsMs == {100, 1000}
\* MotionInfo::overallMotionLevel of a frame
MotionLevels == {30, 60, 300}
\* what GaussianModel::scoreAnomaly computes from a trained model
ModelScores == {200, 900}
\* the hours of the day the frames fall in
PipeHours == {0, 1}
NoTrack == -1
NoFrame == <<>>

WholeSeconds(ms) == ms \div 1000

\* AnomalyDetector::getHourOfDay
GetHourOfDay(timestampMs) == (timestampMs \div 3600000) % 24

\* the business-hours test of analyzeSceneActivity and calculateAnomalyScore,
\* with the default range of DeviceConfig, 8 AM to 6 PM
DuringBusinessHours(nowMs) ==
    LET currentTimeOfDay == WholeSeconds(nowMs) % 86400
    IN  currentTimeOfDay >= 8 * 3600 /\ currentTimeOfDay <= 18 * 3600

\* MetadataAnalyzer::configure
MotionThreshold == 10 + (1000 - AnomalyThreshold) \div 10

\* MetadataAnalyzer::analyzeSceneActivity: the score it leaves
AnalyzeSceneActivity(score, motion, personCount, nowMs) ==
    IF ~DuringBusinessHours(nowMs) /\ (personCount > 0 \/ motion > 50)
    THEN score + 300 + motion
    ELSE score

\* MetadataAnalyzer::calculateAnomalyScore
CalculateAnomalyScore(motion, personCount, unknownPersonCount, nowMs) ==
    LET motionPart == IF motion > MotionThreshold THEN motion \div 2 ELSE 0
        objectPart == IF ~DuringBusinessHours(nowMs)
                      THEN personCount * 150
                      ELSE unknownPersonCount * 50
        score == motionPart + objectPart
    IN  IF score < 1000 THEN score ELSE 1000

\* MetadataAnalyzer::detectUnknownVisitors: its verdict and the track map
\* it leaves
DetectUnknownVisitors(tracks, visitor, nowMs) ==
    IF ~visitor
    THEN [anomalyDetected |-> FALSE, tracks |-> NoTrack]
    ELSE IF tracks = NoTrack
    THEN [anomalyDetected |-> FALSE, tracks |-> nowMs]
    ELSE [anomalyDetected |-> WholeSeconds(nowMs - tracks) > UnknownVisitorThresholdSecs,
          tracks |-> tracks]

\* MetadataAnalyzer::detectAnomalousActivity, with fewer than two people
DetectAnomalousActivity(motion) == motion > 200

\* MetadataAnalyzer::processFrame
AnalyzerProcessFrame(motion, visitor, tracks, nowMs) ==
    LET personCount == IF visitor THEN 1 ELSE 0
        sceneScore == AnalyzeSceneActivity(0, motion, personCount, nowMs)
        anomalyScore == CalculateAnomalyScore(motion, personCount, personCount, nowMs)
        unknownVisitor == DetectUnknownVisitors(tracks, visitor, nowMs)
        activityAnomaly == DetectAnomalousActivity(motion)
    IN  [sceneScore |-> sceneScore,
         tracks |-> unknownVisitor.tracks,
         result |->
            [anomalyScore |-> anomalyScore,
             isAnomaly |-> \/ unknownVisitor.anomalyDetected
                           \/ activityAnomaly
                           \/ anomalyScore > AnomalyThreshold,
             anomalyType |->
                 IF unknownVisitor.anomalyDetected THEN "UnknownVisitor"
                 ELSE IF activityAnomaly THEN "AbnormalActivity"
                 ELSE IF anomalyScore > AnomalyThreshold THEN "GeneralAnomaly"
                 ELSE ""]]

\* GaussianModel::scoreAnomaly
ScoreAnomaly(trained, modelScore) == IF ~trained THEN 1000 ELSE modelScore

\* detectAnomaly without the test of isTrained()
DetectAnomalyUnguarded(result, trained, modelScore) ==
    LET anomalyScore == ScoreAnomaly(trained, modelScore)
    IN  [detected |-> anomalyScore > AnomalyThreshold,
         result |->
            [anomalyScore |-> IF result.anomalyScore > anomalyScore
                              THEN result.anomalyScore ELSE anomalyScore,
             isAnomaly |-> result.isAnomaly \/ anomalyScore > AnomalyThreshold,
             anomalyType |-> IF anomalyScore > AnomalyThreshold /\ result.anomalyType = ""
                             THEN "StatisticalAnomaly" ELSE result.anomalyType]]

\* AnomalyDetector::detectAnomaly: its return value and the result it leaves
DetectAnomaly(result, trained, modelScore) ==
    IF ~trained
    THEN [detected |-> FALSE, result |-> result]
    ELSE LET anomalyScore == ScoreAnomaly(trained, modelScore)
         IN  [detected |-> anomalyScore > AnomalyThreshold,
              result |->
                 [anomalyScore |-> IF result.anomalyScore > anomalyScore
                                   THEN result.anomalyScore ELSE anomalyScore,
                  isAnomaly |-> result.isAnomaly \/ anomalyScore > AnomalyThreshold,
                  anomalyType |->
                      IF anomalyScore > AnomalyThreshold /\ result.anomalyType = ""
                      THEN "StatisticalAnomaly" ELSE result.anomalyType]]

\* ---- state after the construction of the camera's components: a model is
\* trained when the detector's constructor found its file
InitPipeline ==
    /\ pipeNowMs \in PipeStartNowMs
    /\ pipeTimestampMs = PipeStartTimestampMs
    /\ m_unknownVisitorTracks = NoTrack
    /\ pipeModels \in [PipeHours -> BOOLEAN]
    /\ framesDone = 0
    /\ visitorSinceMs = NoTrack
    /\ lastFrame = NoFrame

ParkedPipeline ==
    /\ pipeNowMs = PipeStartTimestampMs
    /\ pipeTimestampMs = PipeStartTimestampMs
    /\ m_unknownVisitorTracks = NoTrack
    /\ pipeModels = [h \in PipeHours |-> FALSE]
    /\ framesDone = 0
    /\ visitorSinceMs = NoTrack
    /\ lastFrame = NoFrame

\* NxAgentSystem::processFrame: the analyzer, the detector, and
\* ResponseProtocol::processAnomaly if the detector returned true; the
\* clock and the camera then move on to the next frame
SystemProcessFrame(motion, visitor, modelScore, interval) ==
    /\ framesDone < MaxFrames
    /\ LET hour == GetHourOfDay(pipeTimestampMs)
           analyzed == AnalyzerProcessFrame(motion, visitor, m_unknownVisitorTracks,
                                            pipeNowMs)
           detection == DetectAnomaly(analyzed.result, pipeModels[hour], modelScore)
           since == IF ~visitor THEN NoTrack
                    ELSE IF visitorSinceMs = NoTrack THEN pipeTimestampMs
                    ELSE visitorSinceMs
       IN  /\ m_unknownVisitorTracks' = analyzed.tracks
           /\ visitorSinceMs' = since
           /\ lastFrame' = [visitor |-> visitor,
                            presenceMs |-> IF visitor THEN pipeTimestampMs - since ELSE 0,
                            hour |-> hour,
                            trained |-> pipeModels[hour],
                            sceneScore |-> analyzed.sceneScore,
                            analyzed |-> analyzed.result,
                            result |-> detection.result,
                            detected |-> detection.detected,
                            submitted |-> detection.detected]
    /\ framesDone' = framesDone + 1
    /\ pipeTimestampMs' = pipeTimestampMs + FrameIntervalMs
    /\ pipeNowMs' = pipeNowMs + interval
    /\ UNCHANGED pipeModels
    /\ UNCHANGED notPipeline

PipelineStep ==
    \E motion \in MotionLevels, visitor \in BOOLEAN, modelScore \in ModelScores,
       interval \in ProcessingIntervalsMs :
        SystemProcessFrame(motion, visitor, modelScore, interval)

(***************************************************************************)
(*              PLAN GENERATION WITH AN ORACLE: definitions                *)
(*  StrategyManager::generatePlan as two threads call it next to other     *)
(*  operations on the incident, plan and subject stores.  A call is the    *)
(*  sequence of its lock operations, in source order, with the submission  *)
(*  of the request to the oracle and the wait on its future.               *)
(***************************************************************************)
\* ---- bounds of the planner model
MaxPlannerCalls == 3

\* ---- inputs
PlannerThreads == {1, 2}
PlannerMutexes == {"incident", "plan", "subject", "camera"}

\* m_llmManager->submitRequest(request)
SubmitToOracle == [op |-> "submit", arg |-> "oracle"]
\* future.get()
AwaitOracle == [op |-> "get", arg |-> "oracle"]

\* generatePlanWithLLM: the cameras, and with an oracle the related
\* subjects (if the incident has any), the request and the wait
GeneratePlanWithLLMPaths(oracle) ==
    IF ~oracle
    THEN {GetAdjacentCamerasOps}
    ELSE {GetAdjacentCamerasOps \o subjects \o <<SubmitToOracle, AwaitOracle>> :
              subjects \in {<<>>, Locked("subject")}}

\* generatePlan: the incident is unknown, or the plan is generated and
\* stored; incidentLock lives until the return
GeneratePlanPaths(oracle) ==
    {Locked("incident")} \cup
    {<<Acq("incident")>> \o ops \o Locked("plan") \o <<Rel("incident")>> :
         ops \in GeneratePlanWithLLMPaths(oracle)}

PlannerHeldBy(t) == {m \in PlannerMutexes : plannerOwner[m] = t}

\* ---- state after StrategyManager::initialize
InitPlanner ==
    /\ m_llmManager \in BOOLEAN
    /\ plannerOwner = [m \in PlannerMutexes |-> NoHolder]
    /\ plannerOps = [t \in PlannerThreads |-> <<>>]
    /\ requestPending = [t \in PlannerThreads |-> FALSE]
    /\ responseReady = [t \in PlannerThreads |-> FALSE]
    /\ plannerCalls = 0

ParkedPlanner ==
    /\ m_llmManager = FALSE
    /\ plannerOwner = [m \in PlannerMutexes |-> NoHolder]
    /\ plannerOps = [t \in PlannerThreads |-> <<>>]
    /\ requestPending = [t \in PlannerThreads |-> FALSE]
    /\ responseReady = [t \in PlannerThreads |-> FALSE]
    /\ plannerCalls = 0

\* a thread enters one of the manager's public functions
PlannerBeginCall(t, ops) ==
    /\ plannerOps[t] = <<>>
    /\ plannerCalls < MaxPlannerCalls
    /\ plannerCalls' = plannerCalls + 1
    /\ plannerOps' = [plannerOps EXCEPT ![t] = ops]
    /\ UNCHANGED <<m_llmManager, plannerOwner, requestPending, responseReady>>
    /\ UNCHANGED notPlanner

PlannerGeneratePlan(t) ==
    \E ops \in GeneratePlanPaths(m_llmManager) : PlannerBeginCall(t, ops)

PlannerUpdateIncident(t) == \E ops \in UpdateIncidentPaths : PlannerBeginCall(t, ops)

PlannerUpdateTrackedSubject(t) == PlannerBeginCall(t, UpdateTrackedSubjectOps)

\* the next lock, unlock, submission or wait of the call the thread is in
PlannerStep(t) ==
    /\ plannerOps[t] # <<>>
    /\ LET o == Head(plannerOps[t]) IN
        /\ o.op = "acq" => plannerOwner[o.arg] = NoHolder
        /\ o.op = "get" => responseReady[t]
        /\ plannerOwner' = CASE o.op = "acq" -> [plannerOwner EXCEPT ![o.arg] = t]
                             [] o.op = "rel" -> [plannerOwner EXCEPT ![o.arg] = NoHolder]
                             [] OTHER -> plannerOwner
        /\ requestPending' = IF o.op = "submit"
                             THEN [requestPending EXCEPT ![t] = TRUE]
                             ELSE requestPending
        /\ responseReady' = IF o.op = "get"
                            THEN [responseReady EXCEPT ![t] = FALSE]
                            ELSE responseReady
    /\ plannerOps' = [plannerOps EXCEPT ![t] = Tail(plannerOps[t])]
    /\ UNCHANGED <<m_llmManager, plannerCalls>>
    /\ UNCHANGED notPlanner

\* the oracle's worker answers the request of thread t: the callback sets
\* the promise
OracleResponds(t) ==
    /\ requestPending[t]
    /\ requestPending' = [requestPending EXCEPT ![t] = FALSE]
    /\ responseReady' = [responseReady EXCEPT ![t] = TRUE]
    /\ UNCHANGED <<m_llmManager, plannerOwner, plannerOps, plannerCalls>>
    /\ UNCHANGED notPlanner

PlannerNext ==
    \/ \E t \in PlannerThreads : PlannerGeneratePlan(t)
    \/ \E t \in PlannerThreads : PlannerUpdateIncident(t)
    \/ \E t \in PlannerThreads : PlannerUpdateTrackedSubject(t)
    \/ \E t \in PlannerThreads : PlannerStep(t)
    \/ \E t \in PlannerThreads : OracleResponds(t)

(***************************************************************************)
(*                    ACTION EXECUTION: definitions                        *)
(*  The EXECUTE_ACTION task of ReasoningSystem::executeTask with           *)
(*  executeAction, for actions of every type.  createAction queues one     *)
(*  task for the action it stores, so an action is executed once, while it *)
(*  is PENDING.  A result string is kept up to the text that follows its   *)
(*  fixed beginning.                                                       *)
(***************************************************************************)
\* ---- bounds of the execution model
MaxExecActions == 2

\* ---- inputs
ActionTypes == {"FOCUS_CAMERA", "ADJUST_ANALYSIS", "GENERATE_ALERT", "SUPPRESS_ALERT",
                "GATHER_CONTEXT", "VERIFY_ANOMALY", "CORRELATE_EVENTS",
                "INITIATE_RESPONSE", "TRACK_SUBJECT", "COORDINATE_SYSTEM",
                "UPDATE_MODEL", "LOG_INFORMATION", "REQUEST_ASSISTANCE"}
\* what executeAction finds around it: a strategy manager, knowledge that
\* mentions an anomaly, such knowledge with confidence above 0.8, and
\* tracked subjects
ExecEnvironments ==
    [strategyManager : BOOLEAN, anomalyKnown : BOOLEAN, confident : BOOLEAN,
     subjects : BOOLEAN]
NoAction == [none |-> TRUE]
NoRunning == 0

\* ReasoningSystem::executeAction: its return value and the string it
\* stores in Action::result ("" when it stores none)
ExecuteActionOutcome(type, env) ==
    CASE type = "FOCUS_CAMERA" ->
             [success |-> TRUE, result |-> "Focused monitoring on camera: "]
      [] type = "ADJUST_ANALYSIS" -> [success |-> TRUE, result |-> ""]
      [] type = "GENERATE_ALERT" -> [success |-> TRUE, result |-> "Alert generated: "]
      [] type = "SUPPRESS_ALERT" -> [success |-> TRUE, result |-> ""]
      [] type = "GATHER_CONTEXT" ->
             IF env.strategyManager
             THEN [success |-> TRUE, result |-> "Gathered additional context"]
             ELSE [success |-> FALSE, result |-> ""]
      [] type = "VERIFY_ANOMALY" ->
             IF ~env.anomalyKnown THEN [success |-> FALSE, result |-> ""]
             ELSE [success |-> TRUE,
                   result |-> IF env.confident
                              THEN "Anomaly verified as genuine"
                              ELSE "Unable to verify anomaly with high confidence"]
      [] type = "CORRELATE_EVENTS" -> [success |-> TRUE, result |-> ""]
      [] type = "INITIATE_RESPONSE" ->
             IF env.strategyManager
             THEN [success |-> TRUE,
                   result |-> "Initiated response protocol - Incident ID: "]
             ELSE [success |-> FALSE, result |-> ""]
      [] type = "TRACK_SUBJECT" ->
             IF env.strategyManager /\ env.subjects
             THEN [success |-> TRUE, result |-> "Tracking subject: "]
             ELSE [success |-> FALSE, result |-> ""]
      [] type = "COORDINATE_SYSTEM" -> [success |-> TRUE, result |-> ""]
      [] type = "UPDATE_MODEL" -> [success |-> TRUE, result |-> ""]
      [] type = "LOG_INFORMATION" ->
             [success |-> TRUE, result |-> "Information logged: "]
      [] type = "REQUEST_ASSISTANCE" ->
             [success |-> TRUE, result |-> "Assistance requested: "]
      [] OTHER -> [success |-> FALSE, result |-> ""]

\* ---- state after construction: no action stored
\* the EXECUTE_ACTION tasks in the queue once createAction has stored
\* action id: createAction pushes one
ActionTasksTwice(queue, id) == Append(Append(queue, id), id)

ActionTasks(queue, id) == Append(queue, id)

InitExec ==
    /\ execActions = [id \in 1..MaxExecActions |-> NoAction]
    /\ execCreated = 0
    /\ execTasks = << >>
    /\ execRunning = NoRunning

ParkedExec == InitExec

\* ReasoningSystem::createAction
ExecCreateAction(type) ==
    /\ execCreated < MaxExecActions
    /\ execCreated' = execCreated + 1
    /\ execActions' = [execActions EXCEPT ![execCreated + 1] =
                          [type |-> type, status |-> "PENDING", result |-> ""]]
    /\ execTasks' = ActionTasks(execTasks, execCreated + 1)
    /\ UNCHANGED execRunning
    /\ UNCHANGED notExec

\* workerFunction pops the front task; executeTask, case EXECUTE_ACTION,
\* finds the action and stores it IN_PROGRESS, whatever its status was
ExecStartAction ==
    /\ execRunning = NoRunning
    /\ execTasks # << >>
    /\ execTasks' = Tail(execTasks)
    /\ execRunning' = Head(execTasks)
    /\ execActions' = [execActions EXCEPT ![Head(execTasks)].status = "IN_PROGRESS"]
    /\ UNCHANGED execCreated
    /\ UNCHANGED notExec

\* executeTask, case EXECUTE_ACTION, once the action is IN_PROGRESS:
\* executeAction runs, and the status is set from its return value; a
\* failed action gets the result "Action execution failed"
ExecuteActionTask(id, env) ==
    /\ execActions[id] # NoAction
    /\ execRunning = id
    /\ execRunning' = NoRunning
    /\ LET outcome == ExecuteActionOutcome(execActions[id].type, env)
       IN  execActions' = [execActions EXCEPT ![id] =
               [type |-> @.type,
                status |-> IF outcome.success THEN "COMPLETED" ELSE "FAILED",
                result |-> IF ~outcome.success THEN "Action execution failed"
                           ELSE outcome.result]]
    /\ UNCHANGED <<execCreated, execTasks>>
    /\ UNCHANGED notExec

ExecStep ==
    \/ \E type \in ActionTypes : ExecCreateAction(type)
    \/ ExecStartAction
    \/ \E id \in 1..MaxExecActions, env \in ExecEnvironments : ExecuteActionTask(id, env)

(***************************************************************************)
(*                    SUBJECT TRACKING: definitions                        *)
(*  StrategyManager::updateTrackedSubject as the camera pipelines call it  *)
(*  concurrently.  matchObjectToSubject, the insertion that ends           *)
(*  createTrackedSubject and the final update each hold m_subjectMutex     *)
(*  for their whole length, so each is one step; the subject               *)
(*  createTrackedSubject builds before it locks is local to the caller.    *)
(*  A PositionRecord is kept as its camera and the number of the           *)
(*  detection it was made from.                                            *)
(***************************************************************************)
\* ---- bounds of the tracking model
MaxDetections == 3

\* ---- inputs
CameraPipelines == {1, 2}
SubjectTrackIds == {"track-1", "track-2"}
ObjectTypeIds == {"person", "vehicle", "bag"}
\* no entry in m_subjects; a stored subject has at least the record
\* createTrackedSubject gave it
NoSubject == << >>
NoObject == [none |-> TRUE]

\* the PositionRecord TrackedSubject::update appends
PositionRecord(cameraId, obj) == [cameraId |-> cameraId, detection |-> obj.detection]

\* TrackedSubject::update, on the position history
SubjectUpdate(history, cameraId, obj) == Append(history, PositionRecord(cameraId, obj))

\* StrategyManager::matchObjectToSubject: the id, or "" for no match
MatchObjectToSubject(subjects, obj) ==
    IF subjects[obj.trackId] # NoSubject THEN obj.trackId ELSE ""

\* the history of the subject createTrackedSubject stores
CreateTrackedSubject(cameraId, obj) == SubjectUpdate(<< >>, cameraId, obj)

\* the typeId test that opens updateTrackedSubject
IsTrackedType(typeId) == typeId \in {"person", "vehicle"}

\* ---- state after construction: no subject
InitTracking ==
    /\ positionHistory = [id \in SubjectTrackIds |-> NoSubject]
    /\ trackPc = [c \in CameraPipelines |-> "idle"]
    /\ trackObj = [c \in CameraPipelines |-> NoObject]
    /\ detectionsMade = 0

ParkedTracking == InitTracking

\* updateTrackedSubject is entered: the typeId test
TrackBegin(c, typeId, trackId) ==
    /\ trackPc[c] = "idle"
    /\ detectionsMade < MaxDetections
    /\ detectionsMade' = detectionsMade + 1
    /\ IF IsTrackedType(typeId)
       THEN /\ trackPc' = [trackPc EXCEPT ![c] = "match"]
            /\ trackObj' = [trackObj EXCEPT ![c] =
                   [typeId |-> typeId, trackId |-> trackId,
                    detection |-> detectionsMade + 1]]
       ELSE UNCHANGED <<trackPc, trackObj>>
    /\ UNCHANGED positionHistory
    /\ UNCHANGED notTracking

\* matchObjectToSubject, under m_subjectMutex
TrackMatch(c) ==
    /\ trackPc[c] = "match"
    /\ trackPc' = [trackPc EXCEPT ![c] =
           IF MatchObjectToSubject(positionHistory, trackObj[c]) = ""
           THEN "create" ELSE "update"]
    /\ UNCHANGED <<positionHistory, trackObj, detectionsMade>>
    /\ UNCHANGED notTracking

\* createTrackedSubject: m_subjects[trackId] = subject, under m_subjectMutex
TrackCreate(c) ==
    /\ trackPc[c] = "create"
    /\ positionHistory' = [positionHistory EXCEPT ![trackObj[c].trackId] =
           CreateTrackedSubject(c, trackObj[c])]
    /\ trackPc' = [trackPc EXCEPT ![c] = "update"]
    /\ UNCHANGED <<trackObj, detectionsMade>>
    /\ UNCHANGED notTracking

\* the find and TrackedSubject::update that end updateTrackedSubject
TrackUpdate(c) ==
    /\ trackPc[c] = "update"
    /\ positionHistory' =
           IF positionHistory[trackObj[c].trackId] # NoSubject
           THEN [positionHistory EXCEPT ![trackObj[c].trackId] =
                    SubjectUpdate(@, c, trackObj[c])]
           ELSE positionHistory
    /\ trackPc' = [trackPc EXCEPT ![c] = "idle"]
    /\ UNCHANGED <<trackObj, detectionsMade>>
    /\ UNCHANGED notTracking

TrackingStep ==
    \/ \E c \in CameraPipelines, typeId \in ObjectTypeIds, trackId \in SubjectTrackIds :
           TrackBegin(c, typeId, trackId)
    \/ \E c \in CameraPipelines : TrackMatch(c)
    \/ \E c \in CameraPipelines : TrackCreate(c)
    \/ \E c \in CameraPipelines : TrackUpdate(c)

(***************************************************************************)
(*                   REFLECTION SCHEDULE: definitions                      *)
(*  The REFLECT tasks of ReasoningSystem: the one executeCognitiveCycle    *)
(*  pushes on every cognitive interval, and the one reflect() pushes for   *)
(*  "the next reflection (in 5 minutes)".  The worker pops the front task  *)
(*  whenever the queue is not empty and executes it; the push that ends    *)
(*  reflect() is part of the task's execution.                             *)
(***************************************************************************)
\* ---- bounds of the reflection model
MaxReflectTicks == 3
MaxReflectPushes == 2
MaxReflections == 3
ReflectStartUs == 1000000

\* ---- constants of the code
ReflectionDelayUs == 300000000
CognitiveIntervalUs == 30000000

\* ---- inputs: the clock advances by a cognitive interval or by the delay
ReflectStepsUs == {CognitiveIntervalUs, ReflectionDelayUs}
NoSchedule == 0

\* the task executeCognitiveCycle pushes: no scheduledTimeUs
CycleReflectTask == [type |-> "REFLECT", scheduledTimeUs |-> NoSchedule]

\* the task reflect() pushes
NextReflectTask(currentTimeUs) ==
    [type |-> "REFLECT", scheduledTimeUs |-> currentTimeUs + ReflectionDelayUs]

\* the task addGoal pushes
EvaluateGoalsTask == [type |-> "EVALUATE_GOALS", scheduledTimeUs |-> NoSchedule]

\* executeTask: the queue when the task has been executed
ExecuteTaskPushes(task, queue, currentTimeUs) ==
    IF task.type = "REFLECT"
    THEN Append(queue, NextReflectTask(currentTimeUs))
    ELSE queue

\* ---- state after initialize: the queue is empty
InitReflection ==
    /\ reflectClockUs = ReflectStartUs
    /\ reflectQueue = << >>
    /\ reflectionsRun = << >>
    /\ reflectTicks = 0
    /\ reflectPushes = 0

ParkedReflection == InitReflection

\* the clock advances
ReflectTick(d) ==
    /\ reflectTicks < MaxReflectTicks
    /\ reflectTicks' = reflectTicks + 1
    /\ reflectClockUs' = reflectClockUs + d
    /\ UNCHANGED <<reflectQueue, reflectionsRun, reflectPushes>>
    /\ UNCHANGED notReflection

\* ReasoningSystem::executeCognitiveCycle, called by cognitiveFunction
ReflectExecuteCognitiveCycle ==
    /\ reflectPushes < MaxReflectPushes
    /\ reflectPushes' = reflectPushes + 1
    /\ reflectQueue' = Append(reflectQueue, CycleReflectTask)
    /\ UNCHANGED <<reflectClockUs, reflectionsRun, reflectTicks>>
    /\ UNCHANGED notReflection

\* ReasoningSystem::addGoal: its EVALUATE_GOALS task
ReflectAddGoal ==
    /\ reflectPushes < MaxReflectPushes
    /\ reflectPushes' = reflectPushes + 1
    /\ reflectQueue' = Append(reflectQueue, EvaluateGoalsTask)
    /\ UNCHANGED <<reflectClockUs, reflectionsRun, reflectTicks>>
    /\ UNCHANGED notReflection

\* workerFunction: front, pop and executeTask
ReflectWorkerExecutes ==
    /\ reflectQueue # << >>
    /\ Len(reflectionsRun) < MaxReflections
    /\ LET task == Head(reflectQueue) IN
        /\ reflectQueue' = ExecuteTaskPushes(task, Tail(reflectQueue), reflectClockUs)
        /\ reflectionsRun' =
               IF task.type = "REFLECT"
               THEN Append(reflectionsRun,
                        [atUs |-> reflectClockUs, scheduledTimeUs |-> task.scheduledTimeUs])
               ELSE reflectionsRun
    /\ UNCHANGED <<reflectClockUs, reflectTicks, reflectPushes>>
    /\ UNCHANGED notReflection

ReflectionStep ==
    \/ \E d \in ReflectStepsUs : ReflectTick(d)
    \/ ReflectExecuteCognitiveCycle
    \/ ReflectAddGoal
    \/ ReflectWorkerExecutes

(***************************************************************************)
(*                            SPECIFICATIONS                               *)
(***************************************************************************)
vars == <<gateVars, detVars, oracleVars, coreVars, storeVars, goalVars, taskVars, pipeVars, planVars, execVars, trackVars, reflectVars>>

\* each specification runs one component; the others stay as constructed
GateInit ==
    InitGate /\ ParkedDetector /\ ParkedOracle /\ ParkedCore /\ ParkedStore /\ ParkedGoals
    /\ ParkedTasks /\ ParkedPipeline /\ ParkedPlanner /\ ParkedExec /\ ParkedTracking
    /\ ParkedReflection

SpecGate == GateInit /\ [][GateStep]_vars

DetectorInit ==
    InitDetector /\ ParkedGate /\ ParkedOracle /\ ParkedCore /\ ParkedStore /\ ParkedGoals
    /\ ParkedTasks /\ ParkedPipeline /\ ParkedPlanner /\ ParkedExec /\ ParkedTracking
    /\ ParkedReflection

SpecDetector == DetectorInit /\ [][DetectorStep]_vars

OracleInit ==
    InitOracle /\ ParkedGate /\ ParkedDetector /\ ParkedCore /\ ParkedStore /\ ParkedGoals
    /\ ParkedTasks /\ ParkedPipeline /\ ParkedPlanner /\ ParkedExec /\ ParkedTracking
    /\ ParkedReflection

SpecOracle == OracleInit /\ [][OracleStep]_vars

\* the manager is started right after construction, its worker thread and
\* the callers' threads are scheduled, and the join returns; nobody is
\* obliged to submit or to stop, and the peer is not obliged to answer
SpecOracleFair ==
    /\ SpecOracle
    /\ WF_vars(LlmStart)
    /\ WF_vars(OracleWorkerStep)
    /\ WF_vars(LlmStopJoined)
    /\ \A c \in Callers : WF_vars(FutureGet(c))

CoreInit ==
    InitCore /\ ParkedGate /\ ParkedDetector /\ ParkedOracle /\ ParkedStore /\ ParkedGoals
    /\ ParkedTasks /\ ParkedPipeline /\ ParkedPlanner /\ ParkedExec /\ ParkedTracking
    /\ ParkedReflection

SpecCore == CoreInit /\ [][CoreStep]_vars

\* the worker thread and a thread inside a call are scheduled; nobody is
\* obliged to make a call or to destroy the object
SpecCoreFair ==
    /\ SpecCore
    /\ WF_vars(WorkerStep)
    /\ \A c \in CoreClients : WF_vars(ClientStep(c))

StoreInit ==
    InitStore /\ ParkedGate /\ ParkedDetector /\ ParkedOracle /\ ParkedCore /\ ParkedGoals
    /\ ParkedTasks /\ ParkedPipeline /\ ParkedPlanner /\ ParkedExec /\ ParkedTracking
    /\ ParkedReflection

SpecStore == StoreInit /\ [][StoreStep]_vars

GoalsInit ==
    InitGoals /\ ParkedGate /\ ParkedDetector /\ ParkedOracle /\ ParkedCore /\ ParkedStore
    /\ ParkedTasks /\ ParkedPipeline /\ ParkedPlanner /\ ParkedExec /\ ParkedTracking
    /\ ParkedReflection

SpecGoals == GoalsInit /\ [][GoalsStep]_vars

TasksInit ==
    InitTasks /\ ParkedGate /\ ParkedDetector /\ ParkedOracle /\ ParkedCore /\ ParkedStore
    /\ ParkedGoals /\ ParkedPipeline /\ ParkedPlanner /\ ParkedExec /\ ParkedTracking
    /\ ParkedReflection

SpecTasks == TasksInit /\ [][TasksStep]_vars

PipelineInit ==
    InitPipeline /\ ParkedGate /\ ParkedDetector /\ ParkedOracle /\ ParkedCore
    /\ ParkedStore /\ ParkedGoals /\ ParkedTasks /\ ParkedPlanner /\ ParkedExec
    /\ ParkedTracking /\ ParkedReflection

SpecPipeline == PipelineInit /\ [][PipelineStep]_vars

PlannerInit ==
    InitPlanner /\ ParkedGate /\ ParkedDetector /\ ParkedOracle /\ ParkedCore
    /\ ParkedStore /\ ParkedGoals /\ ParkedTasks /\ ParkedPipeline /\ ParkedExec
    /\ ParkedTracking /\ ParkedReflection

SpecPlanner == PlannerInit /\ [][PlannerNext]_vars

ExecInit ==
    InitExec /\ ParkedGate /\ ParkedDetector /\ ParkedOracle /\ ParkedCore /\ ParkedStore
    /\ ParkedGoals /\ ParkedTasks /\ ParkedPipeline /\ ParkedPlanner /\ ParkedTracking
    /\ ParkedReflection

SpecExec == ExecInit /\ [][ExecStep]_vars

TrackingInit ==
    InitTracking /\ ParkedGate /\ ParkedDetector /\ ParkedOracle /\ ParkedCore
    /\ ParkedStore /\ ParkedGoals /\ ParkedTasks /\ ParkedPipeline /\ ParkedPlanner
    /\ ParkedExec /\ ParkedReflection

SpecTracking == TrackingInit /\ [][TrackingStep]_vars

ReflectionInit ==
    InitReflection /\ ParkedGate /\ ParkedDetector /\ ParkedOracle /\ ParkedCore
    /\ ParkedStore /\ ParkedGoals /\ ParkedTasks /\ ParkedPipeline /\ ParkedPlanner
    /\ ParkedExec /\ ParkedTracking

SpecReflection == ReflectionInit /\ [][ReflectionStep]_vars

(***************************************************************************)
(*                 PROPERTIES OF THE VERIFICATION & RESPONSE GATE          *)
(***************************************************************************)

\* C5: a response action that fired at time T for an anomaly type does not
\* fire again for that type before T + cooldownMs, also when the anomaly is
\* verified anew in between.
C5_CooldownRespected ==
    [][\A k \in AnomalyTypes \X ActionNames :
          (lastFiredAt'[k] # lastFiredAt[k] /\ lastFiredAt[k] # EpochMs)
              => lastFiredAt'[k] >= lastFiredAt[k] + CooldownMsOf(k[2])]_vars

\* C6 as stated: the NX event callback is invoked at most once for a tracker.
C6_OncePerOccurrence ==
    \A t \in AnomalyTypes : nxEventCalls[t] <= 1

\* C6: triggerResponses runs at most once for a tracker, so the NX event
\* callback is invoked for it at most once per NX_EVENT action registered in
\* the bucket that pass used, however long the anomaly stays active.
C6_OncePerRegisteredEvent ==
    \A t \in AnomalyTypes :
        /\ triggerRuns[t] <= 1
        /\ nxEventCalls[t] <= nxAtTrigger[t]

\* a tracker whose callback was invoked and which was detected again later
C6_DetectedAgainAfterEvent ==
    /\ lastObs # NoObs
    /\ lastObs.wasVerified
    /\ nxEventCalls[lastObs.type] >= 1
    /\ m_activeAnomalies[lastObs.type].responded

\* C10: a tracker that was not verified before a detection is verified after
\* it exactly when the score exceeds 0.85, or exceeds 0.7 with at least 2
\* consecutive detections, or there are at least 3 consecutive detections,
\* or more than 30 seconds have passed since the first detection.
C10_VerificationRule ==
    (lastObs # NoObs /\ ~lastObs.wasVerified) =>
        LET tracker == m_activeAnomalies[lastObs.type]
        IN tracker.verified <=>
              \/ lastObs.score > VerifyHighScore
              \/ /\ lastObs.score > VerifyMediumScore
                 /\ tracker.consecutiveDetections >= VerifyMediumDetections
              \/ tracker.consecutiveDetections >= VerifyPersistDetections
              \/ tracker.lastDetectedTime - tracker.firstDetectedTime
                     > VerifyPersistSecs * 1000

\* C11: once a tracker is verified, a later detection of the same type,
\* whatever its score, leaves it verified: the verified flag of a live
\* tracker never goes from true back to false.
C11_VerifiedStaysVerified ==
    (lastObs # NoObs /\ lastObs.wasVerified) =>
        /\ m_activeAnomalies[lastObs.type] # NoTracker
        /\ m_activeAnomalies[lastObs.type].verified

\* a verified tracker was detected again with a score and a repetition
\* count that would not verify it by themselves
C11_LowScoreAfterVerified ==
    /\ lastObs # NoObs
    /\ lastObs.wasVerified
    /\ lastObs.score = 500
    /\ m_activeAnomalies[lastObs.type].consecutiveDetections = 2
    /\ PersistedSecs(m_activeAnomalies[lastObs.type]) <= VerifyPersistSecs
    /\ m_activeAnomalies[lastObs.type].verified

\* C12: when a verified, not-yet-responded anomaly triggers its responses,
\* the actions attempted are the ones registered for its type, or those of
\* the generic bucket when the type has none, in descending priority order,
\* after any sequence of addResponseAction and removeResponseAction calls.
C12_DescendingPriorityOrder ==
    [][\A t \in AnomalyTypes :
          LET before == CleanupAnomalies(m_activeAnomalies, clockMs)[t]
              key == BucketFor(m_responseActions, t)
              attempted == IF key = "none" THEN <<>> ELSE m_responseActions[key].actions
              own == m_responseActions[t].actions
              registered == IF own # <<>> THEN own
                            ELSE m_responseActions["GeneralAnomaly"].actions
          IN (/\ gateCalls' # gateCalls
              /\ lastObs'.type = t
              /\ m_activeAnomalies'[t].responded
              /\ (before = NoTracker \/ ~before.responded))
             => /\ {attempted[i] : i \in DOMAIN attempted}
                      = {registered[i] : i \in DOMAIN registered}
                /\ \A i, j \in DOMAIN attempted :
                      i < j => attempted[i].priority >= attempted[j].priority]_vars

\* C13: a tracker that has had no detection for more than 120 s is pruned,
\* so the next detection of its type starts a fresh tracker: one detection
\* counted, first detected now.
C13_IdleTrackerPruned ==
    [][\A t \in AnomalyTypes :
          (/\ gateCalls' # gateCalls
           /\ lastObs'.type = t
           /\ m_activeAnomalies[t] # NoTracker
           /\ clockMs - m_activeAnomalies[t].lastDetectedTime > TrackerExpirySecs * 1000)
          => /\ m_activeAnomalies'[t].consecutiveDetections = 1
             /\ m_activeAnomalies'[t].firstDetectedTime = clockMs]_vars

(***************************************************************************)
(*                     PROPERTIES OF THE ANOMALY ENGINE                    *)
(***************************************************************************)

\* C2: an addToBaseline call that brings an hour's buffer to 100 samples
\* retrains the models and persists them before it returns: such a call
\* never hangs, and once it is over every hour's model and file hold a
\* model trained on at least 100 samples.
C2_RetrainedBeforeReturn ==
    \A t \in DetThreads :
        reachedThreshold[t] =>
            /\ detPc[t] # "deadlocked"
            /\ detPc[t] = "idle" =>
                  \A h \in Hours :
                      m_baselineData[h] >= TrainThreshold =>
                          /\ m_timeModels[h] >= TrainThreshold
                          /\ modelFile[h] >= TrainThreshold

\* C9: a thread that reads or writes the per-hour models or the baseline
\* buffers owns m_baselineMutex while it does.
C9_AccessUnderLock ==
    \A t \in DetThreads :
        detPc[t] \in AccessPcs => m_baselineMutex = t

(***************************************************************************)
(*                  PROPERTIES OF THE ORACLE REQUEST QUEUE                 *)
(***************************************************************************)

\* C7: every request submitted to the oracle eventually completes, with a
\* response or a bounded timeout: a caller that waits on its future
\* eventually stops waiting.
C7_CallerEventuallyReleased ==
    \A c \in Callers : (callerPc[c] = "waiting") ~> (callerPc[c] = "idle")
(***************************************************************************)
(*              PROPERTIES OF THE COGNITIVE CORE AND ITS LOCKS             *)
(***************************************************************************)
\* C1: no thread ever holds two of the state-store locks (goals, knowledge,
\* actions, reasoning steps, subjects, incidents, plans, cameras) at once.
C1_OneStoreLockAtATime ==
    \A t \in CoreThreads : Cardinality(HeldBy(t) \cap StoreLocks) <= 1

\* C3: a worker that is blocked, or about to block, on the empty queue is
\* woken by shutdown: once the destroying thread has notified and waits in
\* join, the worker is not asleep in the wait.
C3_ShutdownWakesWorker ==
    ~(dtorPc = "notified" /\ workerPc = "blocked")

C8_TaskRunsToCompletion == (workerPc = "exec") ~> (workerPc = "loop")

\* C20: a failure raised while the worker executes a task, whatever the
\* task, is caught: the worker is then outside the task holding none of its
\* locks, and when tasks follow in the queue it goes on to execute the next
\* one (unless shutdown ends its loop first).
C20_FailureCaughtWorkerGoesOn ==
    /\ [](workerPc = "caught" => HeldBy(CoreWorker) = {})
    /\ (workerPc = "caught" /\ m_taskQueue # <<>>) ~> (workerPc \in {"exec", "exited"})

\* a failure was caught while the object is running and tasks follow
C20_FailureCaughtTasksFollow ==
    workerPc = "caught" /\ m_taskQueue # <<>> /\ m_running /\ dtorPc = "none"


(***************************************************************************)
(*                   PROPERTIES OF THE STRATEGY STORES                     *)
(***************************************************************************)
\* C14: a tracked subject that has not been updated for more than 10
\* minutes is absent from getTrackedSubjects() after a cleanup pass.
C14_IdleSubjectRemoved ==
    [][\A tracks \in SUBSET TrackIds, isAnomaly \in BOOLEAN, t \in TrackIds :
          (/\ StoreProcessAnalysisResult(tracks, isAnomaly)
           /\ t \in DOMAIN m_subjects
           /\ t \notin tracks
           /\ strategyClockMs - m_subjects[t].lastSeen > SubjectExpiryMinutes * 60000)
          => t \notin GetTrackedSubjects']_vars

\* C15: an incident that is still open and has had no update for more than
\* 30 minutes is RESOLVED after the next cleanup pass.
C15_StaleIncidentResolved ==
    [][\A tracks \in SUBSET TrackIds, isAnomaly \in BOOLEAN, i \in 1..MaxIncidents :
          (/\ StoreProcessAnalysisResult(tracks, isAnomaly)
           /\ i \in DOMAIN m_incidents
           /\ IsActiveIncident(m_incidents[i])
           /\ strategyClockMs - m_incidents[i].updateTime > IncidentExpiryMinutes * 60000)
          => m_incidents'[i].status = "RESOLVED"]_vars

\* C16: the status of an incident only moves NEW -> INVESTIGATING,
\* INVESTIGATING -> CONFIRMED -> RESOLVED or INVESTIGATING -> FALSE_ALARM,
\* whatever changes it; RESOLVED and FALSE_ALARM are never left.
C16_IncidentStatusMachine ==
    [][\A i \in DOMAIN m_incidents :
          \/ m_incidents'[i].status = m_incidents[i].status
          \/ <<m_incidents[i].status, m_incidents'[i].status>> \in
                 {<<"NEW", "INVESTIGATING">>, <<"INVESTIGATING", "CONFIRMED">>,
                  <<"CONFIRMED", "RESOLVED">>, <<"INVESTIGATING", "FALSE_ALARM">>}]_vars

\* C17: every plan starts in DRAFT and its status only moves DRAFT -> ACTIVE,
\* then ACTIVE -> COMPLETED or ACTIVE -> CANCELLED, which are never left.
C17_PlanStatusMachine ==
    [][/\ \A p \in DOMAIN m_plans' \ DOMAIN m_plans : m_plans'[p].status = "DRAFT"
       /\ \A p \in DOMAIN m_plans' \cap DOMAIN m_plans :
             \/ m_plans'[p].status = m_plans[p].status
             \/ <<m_plans[p].status, m_plans'[p].status>> \in
                    {<<"DRAFT", "ACTIVE">>, <<"ACTIVE", "COMPLETED">>,
                     <<"ACTIVE", "CANCELLED">>}]_vars


(***************************************************************************)
(*                    PROPERTIES OF GOALS AND ACTIONS                      *)
(***************************************************************************)
\* C18: the status of a goal only moves PENDING -> IN_PROGRESS and then
\* IN_PROGRESS -> ACHIEVED, FAILED or ABANDONED; a terminal status is reached
\* only from IN_PROGRESS and never changes again.
C18_GoalStatusMachine ==
    [][\A g \in DOMAIN m_goals :
          \/ m_goals'[g].status = m_goals[g].status
          \/ m_goals[g].status = "PENDING" /\ m_goals'[g].status = "IN_PROGRESS"
          \/ /\ m_goals[g].status = "IN_PROGRESS"
             /\ m_goals'[g].status \in {"ACHIEVED", "FAILED", "ABANDONED"}]_vars


(***************************************************************************)
(*                      PROPERTIES OF THE TASK ORDER                       *)
(***************************************************************************)
\* C19: the worker executes the tasks strictly in the order in which they
\* were enqueued, whatever their priority: the k-th task handed to
\* executeTask is the k-th task that was pushed.
C19_ExecutedInEnqueueOrder ==
    \A k \in DOMAIN executedTasks : executedTasks[k].id = k

\* a task was executed while a task of higher priority was waiting behind it
C19_LowPriorityExecutedFirst ==
    \E k \in DOMAIN executedTasks : executedTasks[k].waiting > executedTasks[k].priority

(***************************************************************************)
(*                   PROPERTIES OF THE FRAME PIPELINE                      *)
(***************************************************************************)
\* C21: an observation's anomaly score is only ever raised: after each step
\* of the pipeline that scores the frame (the scene-activity analysis, the
\* score calculation of the analyzer, the statistical detector) the score is
\* at least what it was before the step.
C21_ScoreNeverLowered ==
    lastFrame # NoFrame =>
        /\ lastFrame.sceneScore >= 0
        /\ lastFrame.analyzed.anomalyScore >= lastFrame.sceneScore
        /\ lastFrame.result.anomalyScore >= lastFrame.analyzed.anomalyScore

C23_VisitorFlaggedAtThreshold ==
    (lastFrame # NoFrame /\ lastFrame.visitor) =>
        /\ lastFrame.presenceMs >= (UnknownVisitorThresholdSecs + 1) * 1000
              => lastFrame.analyzed.anomalyType = "UnknownVisitor"
        /\ lastFrame.presenceMs <= UnknownVisitorThresholdSecs * 1000
              => lastFrame.analyzed.anomalyType # "UnknownVisitor"

\* C27: every observation the analyzer flags as an anomaly is submitted to
\* the verification gate, whatever the statistical model of its hour says.
C27_FlaggedFrameSubmitted ==
    (lastFrame # NoFrame /\ lastFrame.analyzed.isAnomaly) => lastFrame.submitted

(***************************************************************************)
(*              PROPERTIES OF THE ANOMALY ENGINE: resetBaseline            *)
(***************************************************************************)
\* C24: calling resetBaseline twice in a row leaves the detector as calling
\* it once does: after a reset every buffer is empty and every model is
\* untrained, the call has returned and released the mutex, and a reset that
\* follows a reset changes no buffer, no model and no file.
C24_ResetIdempotent ==
    /\ [](resetsInRow >= 1 =>
            /\ \A h \in Hours : m_baselineData[h] = 0 /\ ~IsTrained(m_timeModels[h])
            /\ \A t \in DetThreads : detPc[t] # "deadlocked")
    /\ [][(/\ resetsInRow >= 1
            /\ \E t \in DetThreads : detPc[t] = "reset_clear" /\ detPc'[t] = "idle") =>
            /\ m_baselineData' = m_baselineData
            /\ m_timeModels' = m_timeModels
            /\ modelFile' = modelFile
            /\ m_baselineMutex' = NoOwner]_vars

\* C24 witness: two resets in a row have returned on a detector that had
\* loaded a trained model from its file
C24_ResetTwice ==
    /\ resetsInRow = 2
    /\ \E h \in Hours : modelFile[h] > 0
    /\ \A t \in DetThreads : detPc[t] = "idle"

(***************************************************************************)
(*          PROPERTIES OF THE COGNITIVE CORE: the task population          *)
(***************************************************************************)
\* C26: with no oracle configured, once the calling threads have made their
\* last call, the task queue eventually becomes empty with the worker idle
\* (blocked in wait): tasks do not regenerate one another forever.
\* Behaviours in which the worker blocks for good on a mutex it owns, a task
\* fails, or the object is destroyed are set aside.
C26_QueueDrains ==
    \/ <>(workerPc \in {"deadlocked", "caught"} \/ dtorPc # "none")
    \/ (coreCalls = MaxCoreCalls /\ \A c \in CoreClients : callerOps[c] = <<>>)
           ~> (m_taskQueue = <<>> /\ workerPc = "blocked")

(***************************************************************************)
(*            PROPERTIES OF PLAN GENERATION WITH AN ORACLE                 *)
(***************************************************************************)
\* C28: no thread waits for an oracle response while it holds a state-store
\* lock (the incident, plan, subject or camera mutex), so an oracle that is
\* slow or silent blocks no other thread's incident, plan or subject call.
C28_NoLockHeldWhileWaiting ==
    \A t \in PlannerThreads :
        (plannerOps[t] # <<>> /\ Head(plannerOps[t]).op = "get") => PlannerHeldBy(t) = {}

(***************************************************************************)
(*                   PROPERTIES OF ACTION EXECUTION                        *)
(***************************************************************************)
\* C29: an action that has been executed has a terminal status, COMPLETED
\* or FAILED, and a non-empty result string, whatever its type.
C29_ExecutedActionHasResult ==
    \A id \in 1..MaxExecActions :
        (/\ execActions[id] # NoAction
         /\ execActions[id].status \notin {"PENDING", "IN_PROGRESS"}) =>
            /\ execActions[id].status \in {"COMPLETED", "FAILED"}
            /\ execActions[id].result # ""

\* C30: whenever updateGoals has run while recent knowledge held a threat
\* or an anomaly, a goal of type VERIFY is active when it has finished.
C30_VerifyGoalAfterEvaluation ==
    (lastEvaluation.ran /\ (lastEvaluation.hasThreat \/ lastEvaluation.hasAnomaly))
        => \E g \in DOMAIN m_goals :
               m_goals[g].type = "VERIFY" /\ GoalIsActive(m_goals[g])


\* C31: goal evaluation marks a VERIFY or RESPOND goal ACHIEVED only when
\* every action linked to it ended COMPLETED; with a linked action FAILED or
\* CANCELLED the evaluation does not report the goal achieved.
C31_AchievedOnlyWhenAllCompleted ==
    [][\A g \in DOMAIN m_goals' :
          (/\ lastEvaluation'.ran
           /\ m_goals'[g].type \in {"VERIFY", "RESPOND"}
           /\ m_goals'[g].status = "ACHIEVED"
           /\ (g \in DOMAIN m_goals => m_goals[g].status # "ACHIEVED"))
          => \A a \in DOMAIN m_actions :
                 m_actions[a].goalId = g => m_actions[a].status = "COMPLETED"]_vars


\* C32: when an incident becomes RESOLVED or FALSE_ALARM, through
\* updateIncident or through the 30-minute auto-resolution of
\* cleanupOldData, no plan linked to that incident is left ACTIVE.
C32_NoActivePlanOfClosedIncident ==
    [][\A i \in DOMAIN m_incidents' :
          (/\ ~IsActiveIncident(m_incidents'[i])
           /\ (i \in DOMAIN m_incidents => IsActiveIncident(m_incidents[i])))
          => \A p \in DOMAIN m_plans' :
                 m_plans'[p].incidentId = i => m_plans'[p].status # "ACTIVE"]_vars


(***************************************************************************)
(*                   PROPERTIES OF SUBJECT TRACKING                        *)
(***************************************************************************)
\* the records of history old are the first records of history new
IsPrefix(old, new) ==
    /\ Len(old) <= Len(new)
    /\ \A k \in 1..Len(old) : new[k] = old[k]

\* C33: under concurrent updateTrackedSubject calls for one tracking id
\* the subject of that id stays the one subject, and no PositionRecord
\* already appended to it is lost.
C33_NoPositionRecordLost ==
    [][\A id \in SubjectTrackIds :
          positionHistory[id] # NoSubject
          => /\ positionHistory'[id] # NoSubject
             /\ IsPrefix(positionHistory[id], positionHistory'[id])]_vars

\* C34: a person or vehicle detection processed by updateTrackedSubject,
\* creating the subject or matching it, appends exactly one PositionRecord
\* to the subject's history.
C34_OneRecordPerDetection ==
    [][\A c \in CameraPipelines :
          (trackPc[c] = "update" /\ trackPc'[c] = "idle")
          => LET history == positionHistory'[trackObj[c].trackId]
             IN  Cardinality({k \in DOMAIN history :
                     history[k].detection = trackObj[c].detection}) = 1]_vars

\* C35: a tracker's consecutive-detection count covers only detections
\* that follow one another with no non-anomalous observation between them:
\* detections separated by normal frames do not add up toward the 2- and
\* 3-detection verification thresholds.
C35_ConsecutiveMeansInRow ==
    \A t \in AnomalyTypes :
        (m_activeAnomalies[t] # NoTracker /\ detectionsInRow[t] > 0)
        => m_activeAnomalies[t].consecutiveDetections <= detectionsInRow[t]

\* C36: each anomalous observation passed to processAnalysisResult opens a
\* new incident, and when the call has returned a plan linked to that
\* incident exists.
C36_AnomalyOpensIncidentWithPlan ==
    (lastAnalysis.ran /\ lastAnalysis.isAnomaly)
    => /\ Len(m_incidents) = lastAnalysis.incidentsBefore + 1
       /\ \E p \in DOMAIN m_plans : m_plans[p].incidentId = Len(m_incidents)

\* a second anomalous observation has opened the second incident and its plan
C36_SecondIncidentPlanned ==
    /\ lastAnalysis.ran /\ lastAnalysis.isAnomaly
    /\ lastAnalysis.incidentsBefore = 1
    /\ Len(m_incidents) = 2
    /\ \E p \in DOMAIN m_plans : m_plans[p].incidentId = 2 /\ m_plans[p].status = "ACTIVE"

\* the completion ratio of the actions linked to goal g, in thousandths
CompletionRatio(actions, g) ==
    (Cardinality(CompletedActions(actions, g)) * 1000)
        \div Cardinality(LinkedActions(actions, g))

\* C37 as stated: after goal evaluation the progress of each goal that has
\* linked actions equals the number of its completed linked actions divided
\* by the number of its linked actions.
C37_ProgressIsCompletionRatio ==
    lastEvaluation.ran
    => \A g \in DOMAIN m_goals :
           LinkedActions(m_actions, g) # {}
           => m_goals[g].progress = CompletionRatio(m_actions, g)

\* C37 as amended: after goal evaluation the progress of each VERIFY or
\* RESPOND goal that was not yet completed when the evaluation began and
\* has linked actions equals the number of its complete linked actions
\* divided by the number of its linked actions.
C37_OpenVerifyRespondProgress ==
    [][lastEvaluation'.ran
       => \A g \in DOMAIN m_goals :
              (/\ m_goals[g].type \in {"VERIFY", "RESPOND"}
               /\ ~GoalIsCompleted(m_goals[g])
               /\ LinkedActions(m_actions, g) # {})
              => m_goals'[g].progress = CompletionRatio(m_actions, g)]_vars

\* an evaluation has found one of the two actions of a VERIFY goal complete
C37_HalfDone ==
    /\ lastEvaluation.ran
    /\ \E g \in DOMAIN m_goals :
           /\ m_goals[g].type = "VERIFY"
           /\ Cardinality(LinkedActions(m_actions, g)) = 2
           /\ Cardinality(CompletedActions(m_actions, g)) = 1
           /\ m_goals[g].progress = 500
           /\ GoalIsActive(m_goals[g])


(***************************************************************************)
(*                 PROPERTIES OF THE REFLECTION SCHEDULE                   *)
(***************************************************************************)
\* C38: the next reflection that a reflection schedules, 5 minutes ahead,
\* is not executed before its scheduled time, so reflections never run
\* back to back.
C38_ReflectionNotBeforeSchedule ==
    \A k \in DOMAIN reflectionsRun :
        reflectionsRun[k].scheduledTimeUs # NoSchedule
        => reflectionsRun[k].atUs >= reflectionsRun[k].scheduledTimeUs

\* the status of action id, "" while the action is not created
ActionStatus(actions, id) ==
    IF actions[id] = NoAction THEN "" ELSE actions[id].status

\* C39: an action's status only ever moves PENDING -> IN_PROGRESS ->
\* COMPLETED, FAILED or CANCELLED: an action is started at most once and
\* its terminal status never changes again.
C39_ActionStatusMachine ==
    [][\A id \in 1..MaxExecActions :
          LET old == ActionStatus(execActions, id)
              new == ActionStatus(execActions', id)
          IN  old # new
              => \/ old = "" /\ new = "PENDING"
                 \/ old = "PENDING" /\ new = "IN_PROGRESS"
                 \/ old = "IN_PROGRESS" /\ new \in {"COMPLETED", "FAILED", "CANCELLED"}]_vars

\* every action that was created has been started and has ended, and no
\* task is left
C39_AllActionsEnded ==
    /\ execCreated = MaxExecActions
    /\ execTasks = << >>
    /\ execRunning = NoRunning
    /\ \A id \in 1..MaxExecActions :
           ActionStatus(execActions, id) \in {"COMPLETED", "FAILED"}
    /\ \E id \in 1..MaxExecActions : ActionStatus(execActions, id) = "FAILED"


\* C40: training consumes the accumulated batch: when an hour's buffer has
\* triggered training its samples are cleared, so the buffer never holds
\* more than 100 samples and training is triggered once per 100 samples.
C40_TrainingConsumesBatch ==
    /\ [](\A h \in Hours : m_baselineData[h] <= TrainThreshold)
    /\ [][\A t \in DetThreads :
             (detPc[t] = "train_lock" /\ detPc'[t] # "train_lock")
             => \A h \in Hours :
                    m_baselineData[h] >= TrainThreshold => m_baselineData'[h] = 0]_vars

=============================================================================
